---- MODULE Spec2Model ----
(***************************************************************************)
(* Model of the CPC client library (src/lib/sl_cpc.c): the control socket  *)
(* exchanges of cpc_init / cpc_restart / cpc_open_endpoint /               *)
(* cpc_close_endpoint / cpc_get_endpoint_state, the endpoint socket reads  *)
(* and writes, and the daemon as the peer of those sockets.                *)
(*                                                                         *)
(* Every system call of the library is one step of the calling thread.    *)
(* The daemon is the environment: it answers each control request with a  *)
(* reply of the same type and endpoint number, may answer late (the       *)
(* control socket has a 2 s receive timeout), and may close a connection. *)
(***************************************************************************)
EXTENDS Integers, Sequences, FiniteSets, TLC

\* ------------------------------------------------------------------ bounds
NumThreads == 2      \* application threads
MaxCtrl    == 2      \* lib handles / control sockets allocated in one run
MaxEps     == 2      \* endpoint structures / endpoint sockets allocated
NumEpObjs  == 1      \* cpc_endpoint_t objects owned by the application
MaxStale   == 1      \* requests that may be pending when a recv times out
MaxRx      == 1      \* messages queued on an endpoint socket towards the client
MaxLen     == 5      \* largest data_length passed to cpc_write_endpoint
U32Mod     == 3      \* number of values of the (scaled down) uint32_t
MaxState   == 1      \* largest cpc_endpoint_state_t value the daemon reports

\* ------------------------------------------------------- program constants
HdrLen     == 2      \* sizeof(cpcd_exchange_buffer_t): type, endpoint_number
BoolLen    == 1      \* sizeof(bool)
VerLen     == 1      \* sizeof(uint8_t)
U32Len     == 4      \* sizeof(uint32_t)
StateLen   == 4      \* sizeof(cpc_endpoint_state_t)
PidLen     == 4      \* sizeof(pid_t)
LIBRARY_API_VERSION == 2
SL_CPC_ENDPOINT_SECURITY == 14
RestartAttempts == 5
SunPathLen == 108    \* sizeof(((struct sockaddr_un *)0)->sun_path)

Threads    == 1..NumThreads
MainThread == CHOOSE t \in Threads : \A u \in Threads : t <= u
Handles    == 1..MaxCtrl
EpStructs  == 1..MaxEps
EpObjs     == 1..NumEpObjs
EpIds      == {0, 1, SL_CPC_ENDPOINT_SECURITY}
NULL       == 0

\* size_t is twice as wide as uint32_t; ssize_t is negative from SizeMod / 2 on
SizeMod    == U32Mod * U32Mod
IsNegative(v) == 2 * v >= SizeMod

NullName        == "NULL"
DefaultInstance == "cpcd_0"
NullCb          == "NULL"
\* the parameter triples the application passes to cpc_init
\* an instance name with which neither socket path fits in sun_path
LongName ==
  "a_cpcd_instance_name_that_is_too_long_for_the_path_of_a_socket_under_the_folder"
InitArgs ==
  {[name |-> NullName, tr |-> FALSE, cb |-> NullCb],
   [name |-> "cpcd_1", tr |-> TRUE,  cb |-> "cb1"],
   [name |-> LongName, tr |-> TRUE,  cb |-> "cb1"]}

\* the socket paths snprintf() builds from the instance name: their lengths
SocketFolder == "/dev/shm"
Digits(n) == IF n < 10 THEN 1 ELSE IF n < 100 THEN 2 ELSE 3
CtrlPathLen(name) ==
  Len(SocketFolder) + Len("/cpcd/") + Len(name) + Len("/ctrl.cpcd.sock")
EpPathLen(name, id) ==
  Len(SocketFolder) + Len("/cpcd/") + Len(name) + Len("/ep") + Digits(id)
    + Len(".cpcd.sock")
\* nchars < sizeof(sun_path) - 1
PathFits(nchars) == nchars < SunPathLen - 1

Min(a, b) == IF a < b THEN a ELSE b

VARIABLES
  pc,          \* pc[t]: where thread t is inside the library ("idle": outside)
  loc,         \* loc[t]: arguments, locals, return value and errno of t's call
  saved,       \* the static saved_* variables, the SIGUSR1 disposition and
               \* (history) the callback the handler called last
  first,       \* history: the parameters of the application's first cpc_init
  handle,      \* the application's cpc_handle_t: handle.ptr
  endpoint,    \* the application's cpc_endpoint_t objects: endpoint[o].ptr
  lh,          \* heap: sli_cpc_handle_t structures
  cs,          \* control sockets, one per sli_cpc_handle_t ever allocated
  eps,         \* heap: sli_cpc_endpoint_t structures
  es,          \* endpoint sockets, one per sli_cpc_endpoint_t ever allocated
  lastCtrlOp,  \* history: the last send/recv of a request call on a control socket
  core,        \* daemon: core[s], the link-layer endpoint of side s
  wire,        \* daemon: wire[s], the frames in flight to side s
  sess         \* daemon: the security session

\* the variables of the library and of the application
lvars == <<pc, loc, saved, first, handle, endpoint, lh, cs, eps, es, lastCtrlOp>>

\* the variables of the daemon's link layer
cvars == <<core, wire, sess>>

vars == <<pc, loc, saved, first, handle, endpoint, lh, cs, eps, es, lastCtrlOp,
          core, wire, sess>>

\* the two ends of the serial link: the daemon (primary) and the secondary
Sides == {"host", "sec"}

\* an endpoint of the link layer that is not open
NoCoreEp ==
  [state |-> "Closed", enc |-> FALSE, next_tx |-> 0, expected_rx |-> 0,
   rtq |-> <<>>, pending |-> <<>>, rxq |-> <<>>, timer |-> FALSE,
   ackdue |-> FALSE, nw |-> 0, nr |-> 0, fresh |-> TRUE, refused |-> FALSE]

\* a security session before the handshake
NoSession ==
  [state |-> "NotReady", key |-> 0, tx |-> 0, txhi |-> -1, rx |-> 0, rxhi |-> -1,
   rekeyDue |-> FALSE, incidents |-> 0]

\* the link layer while the library's calls are examined: nothing is open
CoreIdle ==
  /\ core = [s \in Sides |-> NoCoreEp]
  /\ wire = [s \in Sides |-> <<>>]
  /\ sess = NoSession

\* ------------------------------------------------------------------ state
NoLoc ==
  [op |-> "none", id |-> 0, win |-> 0, epo |-> 0, h |-> 0, e |-> 0,
   name |-> NullName, tr |-> FALSE, cb |-> NullCb, i |-> 0,
   br |-> 0, rtype |-> "none", rep |-> 0, pl |-> 0,
   len |-> 0, nb |-> FALSE, sent |-> 0, erecv |-> FALSE, mlen |-> 0, out |-> -1,
   opt |-> "none", val |-> 0, flags |-> {}, size |-> "none", steps |-> <<>>,
   old |-> 0,
   ret |-> 0, errno |-> "none"]

NoEndpoint == [ptr |-> 0, closed |-> FALSE]
\* endpoint->ptr = NULL as cpc_close_endpoint leaves it (closed: history)
ClosedEndpoint == [ptr |-> 0, closed |-> TRUE]
NoHandle == [mem |-> "unalloc", lock |-> "uninit", owner |-> 0, mws |-> 0]
NoCtrl   == [fd |-> "none", conn |-> FALSE, req |-> <<>>, rep |-> <<>>,
             peerClosed |-> FALSE, reported |-> -1, pidSet |-> FALSE,
             inst |-> NullName]
NoEp     == [mem |-> "unalloc", id |-> 0, h |-> 0, lock |-> "uninit", owner |-> 0]
\* nonblock: O_NONBLOCK; oflags: the other file-status flags of the socket;
\* rcvtimeo, sndtimeo: SO_RCVTIMEO, SO_SNDTIMEO (0: none);
\* sndbuf: SO_SNDBUF ("default" as socket() leaves it);
\* setb: history, the value of the last CPC_OPTION_BLOCKING change whose
\* F_SETFL succeeded (-1: none yet)
NoEpSock == [fd |-> "none", conn |-> FALSE, rx |-> <<>>, peerClosed |-> FALSE,
             id |-> 0, nonblock |-> FALSE, oflags |-> {}, rcvtimeo |-> 0,
             sndtimeo |-> 0, sndbuf |-> "default", setb |-> -1]

\* a socket that is still open but that no pointer of the library refers to
Abandoned == [NoCtrl EXCEPT !.fd = "open"]
\* a freed, respectively never freed, handle that no pointer refers to
Freed  == [NoHandle EXCEPT !.mem = "freed"]
Leaked == [NoHandle EXCEPT !.mem = "leaked"]

LibIdle ==
  /\ pc = [t \in Threads |-> "idle"]
  /\ loc = [t \in Threads |-> NoLoc]
  /\ saved = [tracing |-> FALSE, name |-> NullName, cb |-> NullCb,
              handler |-> "SIG_DFL", called |-> "none"]
  /\ first = [set |-> FALSE, name |-> NullName, tr |-> FALSE, cb |-> NullCb]
  /\ handle = NULL
  /\ endpoint = [o \in EpObjs |-> NoEndpoint]
  /\ lh = [h \in Handles |-> NoHandle]
  /\ cs = [h \in Handles |-> NoCtrl]
  /\ eps = [e \in EpStructs |-> NoEp]
  /\ es = [e \in EpStructs |-> NoEpSock]
  /\ lastCtrlOp = [t |-> 0, kind |-> "none"]

Init ==
  /\ LibIdle
  /\ CoreIdle

\* --------------------------------------------------------------- messages
Msg(type, ep, paylen, pl) == [type |-> type, ep |-> ep, len |-> HdrLen + paylen, pl |-> pl]

\* the daemon's reply to request m on a control connection: same type and
\* endpoint number, payload filled in; SetPid has no reply
Replies(m) ==
  CASE m.type = "SET_PID"       -> {}
    [] m.type = "MAX_WRITE"     -> {Msg(m.type, m.ep, U32Len, v) : v \in 0..(U32Mod - 1)}
    [] m.type = "VERSION"       -> {Msg(m.type, m.ep, VerLen, v) :
                                      v \in {LIBRARY_API_VERSION, LIBRARY_API_VERSION + 1}}
    [] m.type = "OPEN_ENDPOINT" -> {Msg(m.type, m.ep, BoolLen, v) :
                                      v \in IF m.ep = SL_CPC_ENDPOINT_SECURITY
                                            THEN {0} ELSE {0, 1}}
    [] m.type = "CLOSE_ENDPOINT" -> {Msg(m.type, m.ep, 0, 0)}
    [] m.type = "ENDPOINT_STATUS" -> {Msg(m.type, m.ep, StateLen, v) : v \in 0..MaxState}

\* ------------------------------------------------------ socket primitives
\* send() of message m on control socket c by thread t; ok tells the outcome
CtrlSendOk(c) == cs[c].fd = "open" /\ cs[c].conn /\ ~cs[c].peerClosed

CtrlSend(c, m) == cs' = [cs EXCEPT ![c].req = Append(@, m)]

\* recv() on control socket c into a buffer of buflen bytes: the possible
\* outcomes as records [br, msg, got, errno]; a message longer than the buffer
\* is truncated (SOCK_SEQPACKET), a missing reply times out after
\* CTRL_SOCKET_TIMEOUT_SEC
CtrlRecvOutcomes(c, buflen) ==
  IF cs[c].fd # "open"
    THEN {[br |-> -1, got |-> FALSE, errno |-> "EBADF"]}
  ELSE IF cs[c].rep # <<>>
    THEN {[br |-> Min(Head(cs[c].rep).len, buflen), got |-> TRUE, errno |-> "none"]}
  ELSE IF cs[c].peerClosed \/ ~cs[c].conn
    THEN {[br |-> 0, got |-> FALSE, errno |-> "none"]}
  ELSE IF Len(cs[c].req) <= MaxStale
    THEN {[br |-> -1, got |-> FALSE, errno |-> "EAGAIN"]}
  ELSE {}

\* the receive buffer after outcome o: header and payload are overwritten by
\* what was received, the rest keeps the request's bytes
AfterRecv(l, c, o) ==
  IF o.got
    THEN [l EXCEPT !.br = o.br,
                   !.rtype = Head(cs[c].rep).type,
                   !.rep = Head(cs[c].rep).ep,
                   !.pl = IF o.br > HdrLen THEN Head(cs[c].rep).pl ELSE @]
    ELSE [l EXCEPT !.br = o.br,
                   !.errno = IF o.errno = "none" THEN @ ELSE o.errno]

CtrlConsume(c, o) ==
  IF o.got THEN cs' = [cs EXCEPT ![c].rep = Tail(@)] ELSE UNCHANGED cs

\* ---------------------------------------------------------------- cpc_init
FreeHandles == {h \in Handles : lh[h].mem = "unalloc"}
NewHandle   == CHOOSE h \in FreeHandles : \A g \in FreeHandles : h <= g

\* return from cpc_init: to the application, or to the loop of cpc_restart
InitReturn(t, l, r, e) ==
  /\ loc' = [loc EXCEPT ![t] = [l EXCEPT !.ret = r,
                                         !.errno = IF e = "keep" THEN @ ELSE e]]
  /\ pc' = [pc EXCEPT ![t] = IF l.op = "restart" THEN "restart_check" ELSE "done"]

EffectiveName(name) ==
  IF saved.name # NullName THEN saved.name
  ELSE IF name = NullName THEN DefaultInstance ELSE name

\* lines 256-310: save the parameters, build the path of the control socket
\* (ERANGE when it does not fit), install the signal handler, access()
InitEnter(t, l, byApp) ==
  LET fits == PathFits(CtrlPathLen(EffectiveName(l.name))) IN
  /\ saved' = [tracing |-> l.tr, cb |-> l.cb, name |-> EffectiveName(l.name),
               handler |-> IF fits /\ l.cb # NullCb THEN "SIGUSR1_handler"
                           ELSE saved.handler,
               called |-> saved.called]
  /\ first' = IF byApp /\ ~first.set
                THEN [set |-> TRUE, name |-> EffectiveName(l.name), tr |-> l.tr, cb |-> l.cb]
                ELSE first
  /\ IF ~fits
       THEN InitReturn(t, l, -1, "ERANGE")
       ELSE \/ /\ FreeHandles # {}
               /\ loc' = [loc EXCEPT ![t] = l]
               /\ pc' = [pc EXCEPT ![t] = "init_connect"]
            \/ InitReturn(t, l, -1, "ENOENT")
  /\ UNCHANGED <<handle, endpoint, lh, cs, eps, es, lastCtrlOp>>

cpc_init(t, a) ==
  /\ pc[t] = "idle"
  /\ InitEnter(t, [NoLoc EXCEPT !.op = "init", !.name = a.name, !.tr = a.tr, !.cb = a.cb], TRUE)
  /\ UNCHANGED cvars

\* a failed step that lets cpc_init return 0
InitFail_Success(t, l, e) ==
  /\ UNCHANGED <<lh, cs>>
  /\ InitReturn(t, l, 0, e)

\* a failed step of cpc_init: free(lib_handle); return -1. The socket stays
\* open and no pointer to it is left: what the daemon does on it is dropped.
InitFail(t, l, e) ==
  /\ lh' = [lh EXCEPT ![l.h] = Freed]
  /\ cs' = [cs EXCEPT ![l.h] = Abandoned]
  /\ InitReturn(t, l, -1, e)

\* lines 312-341: malloc, socket(), connect(), setsockopt(SO_RCVTIMEO)
InitConnect(t) ==
  /\ pc[t] = "init_connect"
  /\ LET h == NewHandle
         l == [loc[t] EXCEPT !.h = h] IN
     \/ InitFail(t, l, "ECONNREFUSED")
     \/ InitFail(t, l, "ENOPROTOOPT")
     \/ /\ lh' = [lh EXCEPT ![h].mem = "live"]
        /\ cs' = [cs EXCEPT ![h].fd = "open", ![h].inst = saved.name, ![h].conn = TRUE]
        /\ loc' = [loc EXCEPT ![t] = l]
        /\ pc' = [pc EXCEPT ![t] = "init_set_pid"]
  /\ UNCHANGED <<saved, first, handle, endpoint, eps, es, lastCtrlOp>>
  /\ UNCHANGED cvars

\* lines 209-230, 343-348: set_pid
set_pid(t) ==
  /\ pc[t] = "init_set_pid"
  /\ LET h == loc[t].h IN
     IF CtrlSendOk(h)
       THEN /\ CtrlSend(h, Msg("SET_PID", 0, PidLen, 0))
            /\ pc' = [pc EXCEPT ![t] = "init_mw_send"]
            /\ loc' = [loc EXCEPT ![t].steps = Append(@, "SET_PID")]
            /\ UNCHANGED lh
       ELSE InitFail(t, loc[t], "EPIPE")
  /\ UNCHANGED <<saved, first, handle, endpoint, eps, es, lastCtrlOp>>
  /\ UNCHANGED cvars

\* lines 138-156: get_max_write, the send
get_max_write_send(t) ==
  /\ pc[t] = "init_mw_send"
  /\ LET h == loc[t].h IN
     IF CtrlSendOk(h)
       THEN /\ CtrlSend(h, Msg("MAX_WRITE", 0, U32Len, 0))
            /\ loc' = [loc EXCEPT ![t].rtype = "MAX_WRITE", ![t].rep = 0, ![t].pl = 0]
            /\ pc' = [pc EXCEPT ![t] = "init_mw_recv"]
            /\ UNCHANGED lh
       ELSE InitFail(t, loc[t], "EPIPE")
  /\ UNCHANGED <<saved, first, handle, endpoint, eps, es, lastCtrlOp>>
  /\ UNCHANGED cvars

\* line 140, 168-170: size_t max_write_size is not initialised and memcpy
\* fills sizeof(uint32_t) bytes of it: the upper half is indeterminate
MaxWriteValues(payload) == {payload + U32Mod * hi : hi \in 0..(U32Mod - 1)}

\* lines 158-171, 350-357: get_max_write, the recv, and its use by cpc_init
get_max_write_recv(t) ==
  /\ pc[t] = "init_mw_recv"
  /\ LET h == loc[t].h IN
     \E o \in CtrlRecvOutcomes(h, HdrLen + U32Len) :
       LET l == AfterRecv(loc[t], h, o) IN
       IF o.br # HdrLen + U32Len
         THEN InitFail(t, l, IF o.br = 0 THEN "ECONNRESET" ELSE "keep")
         ELSE \E v \in MaxWriteValues(l.pl) :
                   IF IsNegative(v)
                     THEN InitFail(t, l, "keep")
                     ELSE /\ CtrlConsume(h, o)
                          /\ lh' = [lh EXCEPT ![h].mws = v]
                          /\ loc' = [loc EXCEPT ![t] = [l EXCEPT !.steps = Append(@, "MAX_WRITE")]]
                          /\ pc' = [pc EXCEPT ![t] = "init_ver_send"]
  /\ UNCHANGED <<saved, first, handle, endpoint, eps, es, lastCtrlOp>>
  /\ UNCHANGED cvars

\* lines 173-189: check_version, the send
check_version_send(t) ==
  /\ pc[t] = "init_ver_send"
  /\ LET h == loc[t].h IN
     IF CtrlSendOk(h)
       THEN /\ CtrlSend(h, Msg("VERSION", 0, VerLen, LIBRARY_API_VERSION))
            /\ loc' = [loc EXCEPT ![t].rtype = "VERSION", ![t].rep = 0,
                                  ![t].pl = LIBRARY_API_VERSION]
            /\ pc' = [pc EXCEPT ![t] = "init_ver_recv"]
            /\ UNCHANGED lh
       ELSE InitFail(t, loc[t], "EPIPE")
  /\ UNCHANGED <<saved, first, handle, endpoint, eps, es, lastCtrlOp>>
  /\ UNCHANGED cvars

\* some endpoint structure or some other thread's call still points to handle h
Referenced(h, t) ==
  \/ \E e \in EpStructs : eps[e].mem = "live" /\ eps[e].h = h
  \/ \E u \in Threads \ {t} : loc[u].h = h

\* a check_version that accepts every version byte
VersionMatches_Any(version) == TRUE

\* lines 201-204: the version comparison of check_version
VersionMatches(version) == version = LIBRARY_API_VERSION

\* lines 191-207, 359-374: check_version, the recv; mutex init; publish
check_version_recv(t) ==
  /\ pc[t] = "init_ver_recv"
  /\ LET h == loc[t].h IN
     \E o \in CtrlRecvOutcomes(h, HdrLen + VerLen) :
       LET l == AfterRecv(loc[t], h, o) IN
       IF o.br # HdrLen + VerLen
            THEN /\ InitFail(t, l, IF o.br = 0 THEN "ECONNRESET" ELSE "keep")
                 /\ UNCHANGED handle
          ELSE IF ~VersionMatches(l.pl)
            THEN /\ InitFail(t, l, "ELIBBAD")
                 /\ UNCHANGED handle
            ELSE /\ LET old == handle
                         drop == old # NULL /\ ~Referenced(old, t) IN
                    /\ lh' = [g \in Handles |->
                                IF g = h THEN [lh[g] EXCEPT !.lock = "free"]
                                ELSE IF drop /\ g = old THEN Leaked ELSE lh[g]]
                    /\ cs' = [g \in Handles |->
                                IF g = h THEN [cs[g] EXCEPT !.rep = Tail(@)]
                                ELSE IF drop /\ g = old THEN Abandoned ELSE cs[g]]
                 /\ handle' = h
                 /\ InitReturn(t, [l EXCEPT !.steps = Append(@, "VERSION")], 0, "keep")
  /\ UNCHANGED <<saved, first, endpoint, eps, es, lastCtrlOp>>
  /\ UNCHANGED cvars

\* ------------------------------------------------------------- cpc_restart
Done(t, l, r, e) ==
  /\ loc' = [loc EXCEPT ![t] = [l EXCEPT !.ret = r,
                                         !.errno = IF e = "keep" THEN @ ELSE e]]
  /\ pc' = [pc EXCEPT ![t] = "done"]

\* lines 387-398: the NULL check and close(lib_handle->ctrl_sock_fd)
cpc_restart(t) ==
  /\ pc[t] = "idle"
  /\ LET l == [NoLoc EXCEPT !.op = "restart", !.h = handle] IN
     IF handle = NULL
       THEN Done(t, l, -1, "EINVAL") /\ UNCHANGED cs
     ELSE IF cs[handle].fd # "open"
       THEN Done(t, l, -1, "EINVAL") /\ UNCHANGED cs
     ELSE /\ cs' = [cs EXCEPT ![handle].fd = "closed"]
          /\ loc' = [loc EXCEPT ![t] = l]
          /\ pc' = [pc EXCEPT ![t] = "restart_destroy"]
  /\ UNCHANGED <<saved, first, handle, endpoint, lh, eps, es, lastCtrlOp>>
  /\ UNCHANGED cvars

\* a restart that leaves the pointer to the freed handle in handle->ptr
HandleAfterFree_Stale(h) == h

\* line 408: handle->ptr = NULL after free(lib_handle)
HandleAfterFree(h) == NULL

\* lines 400-408: pthread_mutex_destroy, free(lib_handle), handle->ptr = NULL.
\* Destroying a mutex that a thread holds is undefined: it fails with EBUSY
\* or it destroys the mutex.
RestartDestroy(t) ==
  /\ pc[t] = "restart_destroy"
  /\ LET h == loc[t].h
         keep == Referenced(h, t) IN
     \/ /\ lh[h].lock = "held"
        /\ Done(t, loc[t], -1, "EINVAL")
        /\ UNCHANGED <<lh, cs, handle>>
     \/ /\ lh' = [lh EXCEPT ![h] = IF keep THEN [@ EXCEPT !.mem = "freed", !.lock = "destroyed",
                                                          !.owner = 0]
                                   ELSE Freed]
        /\ cs' = [cs EXCEPT ![h] = IF keep THEN @ ELSE [NoCtrl EXCEPT !.fd = "closed"]]
        /\ handle' = HandleAfterFree(h)
        /\ loc' = [loc EXCEPT ![t].i = 0]
        /\ pc' = [pc EXCEPT ![t] = "restart_loop"]
  /\ UNCHANGED <<saved, first, endpoint, eps, es, lastCtrlOp>>
  /\ UNCHANGED cvars

\* lines 412-414: sleep(1); cpc_init with the saved parameters (the locals of
\* the new call of cpc_init are fresh)
RestartLoop(t) ==
  /\ pc[t] = "restart_loop"
  /\ InitEnter(t, [loc[t] EXCEPT !.name = saved.name, !.tr = saved.tracing,
                                 !.cb = saved.cb, !.h = 0, !.br = 0,
                                 !.rtype = "none", !.rep = 0, !.pl = 0,
                                 !.steps = <<>>], FALSE)
  /\ UNCHANGED cvars

\* a loop that goes on after a successful attempt
RestartStops_OnlyAtLimit(l) == l.i + 1 >= RestartAttempts

\* lines 412-418: if (ret == 0) break; and the loop condition after i++
RestartStops(l) == l.ret = 0 \/ l.i + 1 >= RestartAttempts

\* lines 415-420: leave the loop on success or after the last attempt
RestartCheck(t) ==
  /\ pc[t] = "restart_check"
  /\ IF RestartStops(loc[t])
       THEN /\ pc' = [pc EXCEPT ![t] = "done"]
            /\ UNCHANGED loc
       ELSE /\ pc' = [pc EXCEPT ![t] = "restart_loop"]
            /\ loc' = [loc EXCEPT ![t].i = @ + 1]
  /\ UNCHANGED <<saved, first, handle, endpoint, lh, cs, eps, es, lastCtrlOp>>
  /\ UNCHANGED cvars

\* ----------------------------------------------------- control socket mutex
\* a lock that never waits for the thread that holds the mutex
CtrlLock_NoWait(t, next) ==
  /\ pc' = [pc EXCEPT ![t] = next]
  /\ UNCHANGED lh

\* pthread_mutex_lock(&lib_handle->ctrl_sock_fd_lock). The calls test the
\* result with < 0, which no pthread function returns, so a failed lock goes
\* on without the mutex. Locking a destroyed mutex or one in freed memory is
\* undefined: the call goes on without the mutex, or the process crashes.
CtrlLock(t, next) ==
  LET h == loc[t].h IN
  \/ /\ lh[h].mem = "live" /\ lh[h].lock = "free"
     /\ lh' = [lh EXCEPT ![h].lock = "held", ![h].owner = t]
     /\ pc' = [pc EXCEPT ![t] = next]
  \/ /\ lh[h].mem # "live" \/ lh[h].lock \in {"uninit", "destroyed"}
     /\ \/ pc' = [pc EXCEPT ![t] = next]
        \/ pc' = [pc EXCEPT ![t] = "crashed"]
     /\ UNCHANGED lh

\* an unlock that leaves the mutex with the thread
Unlocked_Held(t, h) == lh

\* pthread_mutex_unlock: the value of lh after it
Unlocked(t, h) ==
  IF lh[h].lock = "held" /\ lh[h].owner = t
    THEN [lh EXCEPT ![h].lock = "free", ![h].owner = 0]
    ELSE lh

\* ------------------------------------------------------- cpc_open_endpoint
EpReferenced(e, t) ==
  \/ \E o \in EpObjs : endpoint[o].ptr = e
  \/ \E u \in Threads \ {t} : loc[u].e = e

FreeEps(t) == {e \in EpStructs : eps[e].mem # "live" /\ es[e].fd # "open"
                                 /\ ~EpReferenced(e, t)}
NewEp(t)   == CHOOSE e \in FreeEps(t) : \A g \in FreeEps(t) : e <= g

\* free(ep): the memory keeps its bytes while another thread still uses it
FreeEp(t, e) ==
  [eps EXCEPT ![e] = IF \E u \in Threads \ {t} : loc[u].e = e
                       THEN [@ EXCEPT !.mem = "freed"]
                       ELSE [NoEp EXCEPT !.mem = "freed"]]

\* an endpoint structure whose only pointer was overwritten, and its socket:
\* never freed, never closed, never used again
LeakedEp   == [NoEp EXCEPT !.mem = "leaked"]
LeakedSock == [NoEpSock EXCEPT !.fd = "open"]
EpInUse(e, t, o) ==
  \/ \E p \in EpObjs \ {o} : endpoint[p].ptr = e
  \/ \E u \in Threads \ {t} : loc[u].e = e

\* close(ep->sock_fd): the socket and what is queued on it are gone
ClosedSock == [NoEpSock EXCEPT !.fd = "closed"]

\* the descriptor number of endpoint socket e (0, 1 and 2 are the standard streams)
EpFd(e) == e + 2

\* an open that accepts every tx_window_size
OpenArgsInvalid_AnyWindow(id, win) == id = 0 \/ handle = NULL

\* lines 460-469: only a tx window of 1 is supported; id 0 is the system
\* endpoint (endpoint is never NULL: the application passes &endpoint[o])
OpenArgsInvalid(id, win) == win # 1 \/ id = 0 \/ handle = NULL

\* lines 446-492: the path of the endpoint socket (ERANGE when it does not
\* fit), argument checks, malloc of ep and of the query. The calls examined
\* follow a call of cpc_init, so saved_instance_name is set.
cpc_open_endpoint(t, o, id, win) ==
  /\ pc[t] = "idle"
  /\ LET l == [NoLoc EXCEPT !.op = "open", !.id = id, !.win = win, !.epo = o,
                            !.h = handle, !.old = endpoint[o].ptr] IN
     IF ~PathFits(EpPathLen(saved.name, id))
       THEN /\ Done(t, l, -1, "ERANGE")
            /\ UNCHANGED <<eps, es>>
     ELSE IF OpenArgsInvalid(id, win)
       THEN /\ Done(t, l, -1, "EINVAL")
            /\ UNCHANGED <<eps, es>>
       ELSE /\ FreeEps(t) # {}
            /\ LET e == NewEp(t) IN
               /\ eps' = [eps EXCEPT ![e] = [NoEp EXCEPT !.mem = "live", !.id = id, !.h = handle]]
               /\ es' = [es EXCEPT ![e] = NoEpSock]
               /\ loc' = [loc EXCEPT ![t] = [l EXCEPT !.e = e, !.rtype = "OPEN_ENDPOINT",
                                                      !.rep = id, !.pl = 0]]
               /\ pc' = [pc EXCEPT ![t] = "open_lock"]
  /\ UNCHANGED <<saved, first, handle, endpoint, lh, cs, lastCtrlOp>>
  /\ UNCHANGED cvars

\* lines 496-501
OpenLock(t) ==
  /\ pc[t] = "open_lock"
  /\ CtrlLock(t, "open_send")
  /\ UNCHANGED <<loc, saved, first, handle, endpoint, cs, eps, es, lastCtrlOp>>
  /\ UNCHANGED cvars

\* lines 503-513: send the OpenEndpointQuery
OpenSend(t) ==
  /\ pc[t] = "open_send"
  /\ LET h == loc[t].h IN
     IF CtrlSendOk(h)
       THEN /\ CtrlSend(h, Msg("OPEN_ENDPOINT", loc[t].id, BoolLen, 0))
            /\ lastCtrlOp' = [t |-> t, kind |-> "send"]
            /\ pc' = [pc EXCEPT ![t] = "open_recv"]
            /\ loc' = [loc EXCEPT ![t].sent = 1]
            /\ UNCHANGED <<lh, eps>>
       ELSE /\ lh' = Unlocked(t, h)
            /\ eps' = FreeEp(t, loc[t].e)
            /\ Done(t, loc[t], -1, IF cs[h].fd = "open" THEN "EPIPE" ELSE "EBADF")
            /\ UNCHANGED <<cs, lastCtrlOp>>
  /\ UNCHANGED <<saved, first, handle, endpoint, es>>
  /\ UNCHANGED cvars

\* line 516: recv the reply
OpenRecv(t) ==
  /\ pc[t] = "open_recv"
  /\ LET h == loc[t].h IN
     \E o \in CtrlRecvOutcomes(h, HdrLen + BoolLen) :
       /\ loc' = [loc EXCEPT ![t] = AfterRecv(loc[t], h, o)]
       /\ CtrlConsume(h, o)
  /\ lastCtrlOp' = [t |-> t, kind |-> "recv"]
  /\ pc' = [pc EXCEPT ![t] = "open_unlock"]
  /\ UNCHANGED <<saved, first, handle, endpoint, lh, eps, es>>
  /\ UNCHANGED cvars

\* a refusal that reports EAGAIN for every endpoint
RefusedErrno_Again(id) == "EAGAIN"

\* a refusal that reports EPERM for every endpoint
RefusedErrno_Perm(id) == "EPERM"

\* lines 540-547: the errno of a refused open
RefusedErrno(id) == IF id = SL_CPC_ENDPOINT_SECURITY THEN "EPERM" ELSE "EAGAIN"

\* line 538, 540: can_open as read from the reply's payload
CanOpen(l) == l.pl # 0

\* lines 518-558: unlock, check the reply, create the endpoint socket. Line
\* 554 tests !ep->sock_fd: descriptor 0, which socket() returns when the
\* application has closed its standard input, is taken for a failure and the
\* call returns -1 with the socket open.
OpenUnlock(t) ==
  /\ pc[t] = "open_unlock"
  /\ LET l == loc[t]
         e == l.e IN
     /\ lh' = Unlocked(t, l.h)
     /\ IF l.br # HdrLen + BoolLen
          THEN /\ eps' = FreeEp(t, e)
               /\ Done(t, l, -1, IF l.br = 0 THEN "ECONNRESET" ELSE "keep")
               /\ UNCHANGED es
        ELSE IF ~CanOpen(l)
          THEN /\ eps' = FreeEp(t, e)
               /\ Done(t, l, -1, RefusedErrno(l.id))
               /\ UNCHANGED es
          ELSE \/ /\ es' = [es EXCEPT ![e] = [NoEpSock EXCEPT !.fd = "open", !.id = l.id]]
                  /\ pc' = [pc EXCEPT ![t] = "open_connect"]
                  /\ UNCHANGED <<loc, eps>>
               \/ /\ es' = [es EXCEPT ![e] = LeakedSock]
                  /\ eps' = FreeEp(t, e)
                  /\ Done(t, l, -1, "keep")
  /\ UNCHANGED <<saved, first, handle, endpoint, cs, lastCtrlOp>>
  /\ UNCHANGED cvars

\* the daemon listens on ep<id>.cpcd.sock for the endpoints user clients may
\* open; the security endpoint is not one of them
DaemonAccepts(id) == id # 0 /\ id # SL_CPC_ENDPOINT_SECURITY

\* lines 560-568: connect to ep<id>.cpcd.sock
OpenConnect(t) ==
  /\ pc[t] = "open_connect"
  /\ LET l == loc[t]
         e == l.e IN
     \/ /\ DaemonAccepts(l.id)
        /\ es' = [es EXCEPT ![e].conn = TRUE]
        /\ pc' = [pc EXCEPT ![t] = "open_ack"]
        /\ UNCHANGED <<loc, eps>>
     \/ /\ es' = [es EXCEPT ![e] = ClosedSock]
        /\ eps' = FreeEp(t, e)
        /\ Done(t, l, -1, "ECONNREFUSED")
  /\ UNCHANGED <<saved, first, handle, endpoint, lh, cs, lastCtrlOp>>
  /\ UNCHANGED cvars

\* an ack test that leaves out the length
IsAck_TypeOnly(br, type) == type = "OPEN_ENDPOINT"

\* line 572: the ack is one message of exactly the header, of type OpenEndpointQuery
IsAck(br, type) == br = HdrLen /\ type = "OPEN_ENDPOINT"

\* lines 571-611: recv the ack, setsockopt(SO_SNDBUF), mutex init, publish
OpenAck(t) ==
  /\ pc[t] = "open_ack"
  /\ LET l == loc[t]
         e == l.e IN
     /\ es[e].rx # <<>> \/ es[e].peerClosed
     /\ LET got == es[e].rx # <<>>
            br  == IF got THEN Min(Head(es[e].rx).len, HdrLen + BoolLen) ELSE 0
            l2  == [l EXCEPT !.br = br, !.erecv = TRUE,
                             !.mlen = IF got THEN Head(es[e].rx).len ELSE 0,
                             !.rtype = IF got THEN Head(es[e].rx).type ELSE @] IN
        IF ~IsAck(br, l2.rtype)
          THEN /\ es' = [es EXCEPT ![e] = ClosedSock]
               /\ eps' = FreeEp(t, e)
               /\ Done(t, l2, -1, IF br = 0 THEN "ECONNRESET" ELSE "keep")
               /\ UNCHANGED endpoint
          ELSE \/ /\ es' = [es EXCEPT ![e] = ClosedSock]
                  /\ eps' = FreeEp(t, e)
                  /\ Done(t, l2, -1, "ENOBUFS")
                  /\ UNCHANGED endpoint
               \/ /\ LET old  == endpoint[l.epo].ptr
                         drop == old # NULL /\ old # e /\ ~EpInUse(old, t, l.epo) IN
                     /\ es' = [g \in EpStructs |->
                                 IF g = e THEN [es[g] EXCEPT !.rx = IF got THEN Tail(@) ELSE @,
                                                             !.sndbuf = "4087"]
                                 ELSE IF drop /\ g = old /\ es[g].fd = "open"
                                   THEN LeakedSock ELSE es[g]]
                     /\ eps' = [g \in EpStructs |->
                                  IF g = e THEN [eps[g] EXCEPT !.lock = "free"]
                                  ELSE IF drop /\ g = old THEN LeakedEp ELSE eps[g]]
                  /\ endpoint' = [endpoint EXCEPT ![l.epo] = [ptr |-> e, closed |-> FALSE]]
                  /\ Done(t, l2, EpFd(e), "keep")
  /\ UNCHANGED <<saved, first, handle, lh, cs, lastCtrlOp>>
  /\ UNCHANGED cvars

\* ------------------------------------------------------ cpc_close_endpoint
\* the thread has dereferenced an endpoint structure that was freed: the
\* process goes on with the bytes that are still there, or it crashes
UseEp(t, e, next) ==
  IF eps[e].mem = "live"
    THEN pc' = [pc EXCEPT ![t] = next]
    ELSE pc' = [pc EXCEPT ![t] = next] \/ pc' = [pc EXCEPT ![t] = "crashed"]

\* a close that leaves endpoint->ptr as it is when it fails
EndpointAfterClose_KeepOnFailure(o, ok) ==
  IF ok THEN [endpoint EXCEPT ![o] = ClosedEndpoint] ELSE endpoint

\* lines 644-703: every return past the NULL checks, with 0 (ok) or with -1,
\* follows free(ep); endpoint->ptr = NULL
EndpointAfterClose(o, ok) == [endpoint EXCEPT ![o] = ClosedEndpoint]

\* a NULL check that reports success
CloseNullResult_Success == [ret |-> 0, errno |-> "keep"]

\* lines 634-638: the result of closing an endpoint whose ptr is NULL
CloseNullResult == [ret |-> -1, errno |-> "EINVAL"]

\* lines 626-652: the NULL check, close(ep->sock_fd), lib_handle = ep->lib_handle.
\* close() fails on a descriptor that is not open (EBADF) and when a signal
\* interrupts it (EINTR: the descriptor is released all the same).
cpc_close_endpoint(t, o) ==
  /\ pc[t] = "idle"
  /\ LET e == endpoint[o].ptr
         l == [NoLoc EXCEPT !.op = "close", !.epo = o, !.e = e] IN
     IF e = NULL
       THEN /\ Done(t, l, CloseNullResult.ret, CloseNullResult.errno)
            /\ UNCHANGED <<endpoint, eps, es>>
     ELSE IF es[e].fd # "open"
       THEN /\ eps' = FreeEp(t, e)
            /\ endpoint' = EndpointAfterClose(o, FALSE)
            /\ Done(t, l, -1, "EBADF")
            /\ UNCHANGED es
       ELSE /\ es' = [es EXCEPT ![e] = ClosedSock]
            /\ \/ /\ loc' = [loc EXCEPT ![t] = [l EXCEPT !.h = eps[e].h, !.id = eps[e].id,
                                                         !.rtype = "CLOSE_ENDPOINT",
                                                         !.rep = eps[e].id]]
                  /\ UseEp(t, e, "close_lock")
                  /\ UNCHANGED <<endpoint, eps>>
               \/ /\ eps' = FreeEp(t, e)
                  /\ endpoint' = EndpointAfterClose(o, FALSE)
                  /\ Done(t, l, -1, "EINTR")
  /\ UNCHANGED <<saved, first, handle, lh, cs, lastCtrlOp>>
  /\ UNCHANGED cvars

\* lines 656-661
CloseLock(t) ==
  /\ pc[t] = "close_lock"
  /\ CtrlLock(t, "close_send")
  /\ UNCHANGED <<loc, saved, first, handle, endpoint, cs, eps, es, lastCtrlOp>>
  /\ UNCHANGED cvars

\* lines 663-672: send the CloseEndpointQuery
CloseSend(t) ==
  /\ pc[t] = "close_send"
  /\ LET h == loc[t].h IN
     IF CtrlSendOk(h)
       THEN /\ CtrlSend(h, Msg("CLOSE_ENDPOINT", loc[t].id, 0, 0))
            /\ lastCtrlOp' = [t |-> t, kind |-> "send"]
            /\ pc' = [pc EXCEPT ![t] = "close_recv"]
            /\ loc' = [loc EXCEPT ![t].sent = 1]
            /\ UNCHANGED <<lh, eps, endpoint>>
       ELSE /\ lh' = Unlocked(t, h)
            /\ eps' = FreeEp(t, loc[t].e)
            /\ endpoint' = EndpointAfterClose(loc[t].epo, FALSE)
            /\ Done(t, loc[t], -1, IF cs[h].fd = "open" THEN "EPIPE" ELSE "EBADF")
            /\ UNCHANGED <<cs, lastCtrlOp>>
  /\ UNCHANGED <<saved, first, handle, es>>
  /\ UNCHANGED cvars

\* line 675: recv the reply
CloseRecv(t) ==
  /\ pc[t] = "close_recv"
  /\ LET h == loc[t].h IN
     \E o \in CtrlRecvOutcomes(h, HdrLen) :
       /\ loc' = [loc EXCEPT ![t] = AfterRecv(loc[t], h, o)]
       /\ CtrlConsume(h, o)
  /\ lastCtrlOp' = [t |-> t, kind |-> "recv"]
  /\ pc' = [pc EXCEPT ![t] = "close_unlock"]
  /\ UNCHANGED <<saved, first, handle, endpoint, lh, eps, es>>
  /\ UNCHANGED cvars

\* lines 677-706: unlock, check the reply, destroy the mutex, free, ptr = NULL
CloseUnlock(t) ==
  /\ pc[t] = "close_unlock"
  /\ LET l == loc[t] IN
     /\ lh' = Unlocked(t, l.h)
     /\ eps' = FreeEp(t, l.e)
     /\ endpoint' = EndpointAfterClose(l.epo, l.br = HdrLen)
     /\ IF l.br # HdrLen
          THEN Done(t, l, -1, IF l.br = 0 THEN "ECONNRESET" ELSE "keep")
          ELSE Done(t, l, 0, "keep")
  /\ UNCHANGED <<saved, first, handle, cs, es, lastCtrlOp>>
  /\ UNCHANGED cvars

\* -------------------------------------------------- cpc_get_endpoint_state
\* lines 814-830
cpc_get_endpoint_state(t, id) ==
  /\ pc[t] = "idle"
  /\ LET l == [NoLoc EXCEPT !.op = "state", !.id = id, !.h = handle,
                            !.rtype = "ENDPOINT_STATUS", !.rep = id] IN
     IF handle = NULL \/ id = 0
       THEN Done(t, l, -1, "EINVAL")
       ELSE /\ loc' = [loc EXCEPT ![t] = l]
            /\ pc' = [pc EXCEPT ![t] = "state_lock"]
  /\ UNCHANGED <<saved, first, handle, endpoint, lh, cs, eps, es, lastCtrlOp>>
  /\ UNCHANGED cvars

\* lines 834-838
StateLock(t) ==
  /\ pc[t] = "state_lock"
  /\ CtrlLock(t, "state_send")
  /\ UNCHANGED <<loc, saved, first, handle, endpoint, cs, eps, es, lastCtrlOp>>
  /\ UNCHANGED cvars

\* lines 840-848: send the EndpointStatusQuery
StateSend(t) ==
  /\ pc[t] = "state_send"
  /\ LET h == loc[t].h IN
     IF CtrlSendOk(h)
       THEN /\ CtrlSend(h, Msg("ENDPOINT_STATUS", loc[t].id, StateLen, 0))
            /\ lastCtrlOp' = [t |-> t, kind |-> "send"]
            /\ pc' = [pc EXCEPT ![t] = "state_recv"]
            /\ loc' = [loc EXCEPT ![t].sent = 1]
            /\ UNCHANGED lh
       ELSE /\ lh' = Unlocked(t, h)
            /\ Done(t, loc[t], -1, IF cs[h].fd = "open" THEN "EPIPE" ELSE "EBADF")
            /\ UNCHANGED <<cs, lastCtrlOp>>
  /\ UNCHANGED <<saved, first, handle, endpoint, eps, es>>
  /\ UNCHANGED cvars

\* line 851: recv the reply
StateRecv(t) ==
  /\ pc[t] = "state_recv"
  /\ LET h == loc[t].h IN
     \E o \in CtrlRecvOutcomes(h, HdrLen + StateLen) :
       /\ loc' = [loc EXCEPT ![t] = AfterRecv(loc[t], h, o)]
       /\ CtrlConsume(h, o)
  /\ lastCtrlOp' = [t |-> t, kind |-> "recv"]
  /\ pc' = [pc EXCEPT ![t] = "state_unlock"]
  /\ UNCHANGED <<saved, first, handle, endpoint, lh, eps, es>>
  /\ UNCHANGED cvars

\* lines 853-873: unlock, check the reply, copy the state out
StateUnlock(t) ==
  /\ pc[t] = "state_unlock"
  /\ LET l == loc[t] IN
     /\ lh' = Unlocked(t, l.h)
     /\ IF l.br <= 0
          THEN Done(t, l, -1, IF l.br = 0 THEN "ECONNRESET" ELSE "keep")
          ELSE Done(t, [l EXCEPT !.out = l.pl], 0, "keep")
  /\ UNCHANGED <<saved, first, handle, endpoint, cs, eps, es, lastCtrlOp>>
  /\ UNCHANGED cvars

\* ------------------------------------------------------- cpc_read_endpoint
\* lines 722-734: the argument checks (count against SL_CPC_READ_MINIMUM_SIZE)
cpc_read_endpoint(t, o, countOk, nb) ==
  /\ pc[t] = "idle"
  /\ LET e == endpoint[o].ptr
         l == [NoLoc EXCEPT !.op = "read", !.epo = o, !.e = e, !.nb = nb] IN
     IF ~countOk \/ e = NULL
       THEN Done(t, l, -1, "EINVAL")
       ELSE /\ loc' = [loc EXCEPT ![t] = l]
            /\ pc' = [pc EXCEPT ![t] = "read_recv"]
  /\ UNCHANGED <<saved, first, handle, endpoint, lh, cs, eps, es, lastCtrlOp>>
  /\ UNCHANGED cvars

\* a read that hands recv's result through
ReadResult_Raw(br) == [ret |-> IF br < 0 THEN -1 ELSE br, errno |-> "keep"]

\* lines 737-750: the result of cpc_read_endpoint for recv's result br
ReadResult(br) == IF br = 0 THEN [ret |-> -1, errno |-> "ECONNRESET"]
                  ELSE IF br < 0 THEN [ret |-> -1, errno |-> "keep"]
                  ELSE [ret |-> br, errno |-> "keep"]

\* a recv that is always done with MSG_DONTWAIT
ReturnsEmpty_Always(nb, sock) == TRUE

\* lines 730-736: recv with nothing queued returns (EAGAIN) instead of
\* waiting when SL_CPC_FLAG_NON_BLOCK gave MSG_DONTWAIT, the socket is
\* O_NONBLOCK or it has a receive timeout
ReturnsEmpty(nb, sock) == nb \/ sock.nonblock \/ sock.rcvtimeo # 0

\* lines 736-750: recv on the endpoint socket
ReadRecv(t) ==
  /\ pc[t] = "read_recv"
  /\ LET l == loc[t]
         e == l.e IN
     IF es[e].fd # "open"
       THEN /\ Done(t, [l EXCEPT !.br = -1, !.erecv = TRUE, !.errno = "EBADF"], ReadResult(-1).ret,
                    ReadResult(-1).errno)
            /\ UNCHANGED es
     ELSE IF es[e].rx # <<>>
       THEN /\ es' = [es EXCEPT ![e].rx = Tail(@)]
            /\ LET br == Head(es[e].rx).len IN
               Done(t, [l EXCEPT !.br = br, !.erecv = TRUE, !.mlen = br],
                    ReadResult(br).ret, ReadResult(br).errno)
     ELSE IF es[e].peerClosed
       THEN /\ Done(t, [l EXCEPT !.br = 0, !.erecv = TRUE], ReadResult(0).ret, ReadResult(0).errno)
            /\ UNCHANGED es
       ELSE /\ ReturnsEmpty(l.nb, es[e])
            /\ Done(t, [l EXCEPT !.br = -1, !.erecv = TRUE, !.errno = "EAGAIN"], ReadResult(-1).ret,
                    ReadResult(-1).errno)
            /\ UNCHANGED es
  /\ UNCHANGED <<saved, first, handle, endpoint, lh, cs, eps, lastCtrlOp>>
  /\ UNCHANGED cvars

\* ------------------------------------------------------ cpc_write_endpoint
\* line 769: the size check against the handle's max_write_size
TooLarge(len, mws) == len > mws

\* lines 761-779: the argument checks
cpc_write_endpoint(t, o, len, nb) ==
  /\ pc[t] = "idle"
  /\ LET e == endpoint[o].ptr
         l == [NoLoc EXCEPT !.op = "write", !.epo = o, !.e = e, !.len = len, !.nb = nb] IN
     IF e = NULL \/ len = 0
       THEN Done(t, l, -1, "EINVAL")
     ELSE IF TooLarge(len, lh[eps[e].h].mws)
       THEN Done(t, [l EXCEPT !.h = eps[e].h], -1, "EINVAL")
       ELSE /\ loc' = [loc EXCEPT ![t] = [l EXCEPT !.h = eps[e].h]]
            /\ pc' = [pc EXCEPT ![t] = "write_send"]
  /\ UNCHANGED <<saved, first, handle, endpoint, lh, cs, eps, es, lastCtrlOp>>
  /\ UNCHANGED cvars

\* send() of len bytes on a SOCK_SEQPACKET socket: the whole message or an error
SendResults(len) == {len, -1}

\* a write that returns 0 on success
WriteResult_Zero(bytes_written) == 0

\* lines 795-798: what cpc_write_endpoint returns for send's result
WriteResult(bytes_written) == bytes_written

\* lines 781-798: send on the endpoint socket, assert, return
WriteSend(t) ==
  /\ pc[t] = "write_send"
  /\ LET l == loc[t]
         e == l.e IN
     IF es[e].fd # "open" \/ es[e].peerClosed
       THEN /\ Done(t, l, -1, IF es[e].fd # "open" THEN "EBADF" ELSE "EPIPE")
            /\ UNCHANGED es
       ELSE \E bw \in SendResults(l.len) :
              IF bw = -1
                THEN /\ Done(t, l, -1, "EAGAIN")
                     /\ UNCHANGED es
                ELSE /\ UNCHANGED es
                     /\ IF bw # l.len
                          THEN /\ pc' = [pc EXCEPT ![t] = "crashed"]
                               /\ loc' = [loc EXCEPT ![t].sent = bw]
                          ELSE Done(t, [l EXCEPT !.sent = bw], WriteResult(bw), "keep")
  /\ UNCHANGED <<saved, first, handle, endpoint, lh, cs, eps, lastCtrlOp>>
  /\ UNCHANGED cvars

\* ------------------------------------------------- cpc_set_endpoint_option
Options == {"NONE", "RX_TIMEOUT", "TX_TIMEOUT", "BLOCKING", "SOCKET_SIZE",
            "MAX_WRITE_SIZE"}

\* lines 890-907, 908-925, 964-974: the options set by one setsockopt
SockOptSet(sock, opt, val) ==
  CASE opt = "RX_TIMEOUT"  -> [sock EXCEPT !.rcvtimeo = val]
    [] opt = "TX_TIMEOUT"  -> [sock EXCEPT !.sndtimeo = val]
    [] opt = "SOCKET_SIZE" -> [sock EXCEPT !.sndbuf = "set"]

\* lines 883-931, 964-980: the argument checks, the options set by setsockopt
\* (val: seconds of the timeout, or 1 for blocking = true)
cpc_set_endpoint_option(t, o, opt, val, lenOk) ==
  /\ pc[t] = "idle"
  /\ LET e == endpoint[o].ptr
         l == [NoLoc EXCEPT !.op = "set_option", !.epo = o, !.e = e, !.opt = opt,
                            !.val = val] IN
     IF opt = "NONE" \/ e = NULL
       THEN Done(t, l, -1, "EINVAL") /\ UNCHANGED es
     ELSE IF opt = "MAX_WRITE_SIZE"
       THEN Done(t, l, -1, "EINVAL") /\ UNCHANGED es
     ELSE IF ~lenOk
       THEN Done(t, l, -1, "EINVAL") /\ UNCHANGED es
     ELSE IF opt = "BLOCKING"
       THEN /\ loc' = [loc EXCEPT ![t] = l]
            /\ pc' = [pc EXCEPT ![t] = "opt_lock"]
            /\ UNCHANGED es
     ELSE IF es[e].fd # "open"
       THEN Done(t, l, -1, "EBADF") /\ UNCHANGED es
       ELSE /\ es' = [es EXCEPT ![e] = SockOptSet(@, opt, val)]
            /\ Done(t, l, 0, "keep")
  /\ UNCHANGED <<saved, first, handle, endpoint, lh, cs, eps, lastCtrlOp>>
  /\ UNCHANGED cvars

\* an endpoint lock that never waits for the thread that holds the mutex
EpLock_NoWait(t, next) ==
  /\ pc' = [pc EXCEPT ![t] = next]
  /\ UNCHANGED eps

\* line 933: pthread_mutex_lock(&ep->sock_fd_lock); on a destroyed mutex or
\* one in freed memory, undefined: goes on without the mutex, or crashes
EpLock(t, next) ==
  LET e == loc[t].e IN
  \/ /\ eps[e].mem = "live" /\ eps[e].lock = "free"
     /\ eps' = [eps EXCEPT ![e].lock = "held", ![e].owner = t]
     /\ pc' = [pc EXCEPT ![t] = next]
  \/ /\ eps[e].mem # "live" \/ eps[e].lock \in {"uninit", "destroyed"}
     /\ \/ pc' = [pc EXCEPT ![t] = next]
        \/ pc' = [pc EXCEPT ![t] = "crashed"]
     /\ UNCHANGED eps

\* pthread_mutex_unlock(&ep->sock_fd_lock): the value of eps after it
EpUnlocked(t, e) ==
  IF eps[e].lock = "held" /\ eps[e].owner = t
    THEN [eps EXCEPT ![e].lock = "free", ![e].owner = 0]
    ELSE eps

\* lines 933-936
OptLock(t) ==
  /\ pc[t] = "opt_lock"
  /\ EpLock(t, "opt_getfl")
  /\ UNCHANGED <<loc, saved, first, handle, endpoint, lh, cs, es, lastCtrlOp>>
  /\ UNCHANGED cvars

\* fcntl(fd, F_GETFL): the file-status flags of the socket
FileFlags(sock) == (IF sock.nonblock THEN {"O_NONBLOCK"} ELSE {}) \cup sock.oflags

\* fcntl(fd, F_SETFL, flags): the socket with these file-status flags
WithFlags(sock, flags) ==
  [sock EXCEPT !.nonblock = "O_NONBLOCK" \in flags,
               !.oflags = flags \ {"O_NONBLOCK"}]

\* lines 938-945: flags = fcntl(ep->sock_fd, F_GETFL)
OptGetFl(t) ==
  /\ pc[t] = "opt_getfl"
  /\ LET l == loc[t]
         e == l.e IN
     IF es[e].fd # "open"
       THEN /\ eps' = EpUnlocked(t, e)
            /\ Done(t, l, -1, "EBADF")
       ELSE /\ loc' = [loc EXCEPT ![t].flags = FileFlags(es[e])]
            /\ pc' = [pc EXCEPT ![t] = "opt_setfl"]
            /\ UNCHANGED eps
  /\ UNCHANGED <<saved, first, handle, endpoint, lh, cs, es, lastCtrlOp>>
  /\ UNCHANGED cvars

\* new flags that keep nothing of the flags read by F_GETFL
NewFlags_Overwrite(flags, blocking) == IF blocking THEN {} ELSE {"O_NONBLOCK"}

\* lines 947-951: flags &= ~O_NONBLOCK for blocking = true, flags |= O_NONBLOCK
\* otherwise
NewFlags(flags, blocking) ==
  IF blocking THEN flags \ {"O_NONBLOCK"} ELSE flags \cup {"O_NONBLOCK"}

\* lines 947-953: fcntl(ep->sock_fd, F_SETFL, flags)
OptSetFl(t) ==
  /\ pc[t] = "opt_setfl"
  /\ LET l == loc[t]
         e == l.e IN
     IF es[e].fd # "open"
       THEN /\ loc' = [loc EXCEPT ![t].ret = -1, ![t].errno = "EBADF"]
            /\ UNCHANGED es
       ELSE /\ es' = [es EXCEPT ![e] = [WithFlags(@, NewFlags(l.flags, l.val = 1))
                                          EXCEPT !.setb = l.val]]
            /\ loc' = [loc EXCEPT ![t].ret = 0]
  /\ pc' = [pc EXCEPT ![t] = "opt_unlock"]
  /\ UNCHANGED <<saved, first, handle, endpoint, lh, cs, eps, lastCtrlOp>>
  /\ UNCHANGED cvars

\* lines 955-963, 980: unlock, the result of F_SETFL
OptUnlock(t) ==
  /\ pc[t] = "opt_unlock"
  /\ eps' = EpUnlocked(t, loc[t].e)
  /\ Done(t, loc[t], IF loc[t].ret < 0 THEN -1 ELSE 0, "keep")
  /\ UNCHANGED <<saved, first, handle, endpoint, lh, cs, es, lastCtrlOp>>
  /\ UNCHANGED cvars

\* ------------------------------------------------- cpc_get_endpoint_option
\* lines 1065-1069: *(bool *)optval, true when O_NONBLOCK is clear
BlockingOf(flags) == IF "O_NONBLOCK" \in flags THEN 0 ELSE 1

\* lines 986-1095 (argsOk: optval and optlen are not NULL; lenOk: *optlen is
\* the size the option wants, or at least that size); max_write_size is read
\* through ep->lib_handle, undefined once that handle is freed
cpc_get_endpoint_option(t, o, opt, argsOk, lenOk) ==
  /\ pc[t] = "idle"
  /\ LET e == endpoint[o].ptr
         l == [NoLoc EXCEPT !.op = "get_option", !.epo = o, !.e = e, !.opt = opt] IN
     IF opt = "NONE" \/ e = NULL \/ ~argsOk
       THEN Done(t, l, -1, "EINVAL")
     ELSE IF opt \in {"RX_TIMEOUT", "TX_TIMEOUT"}
       THEN IF ~lenOk THEN Done(t, l, -1, "EINVAL")
            ELSE IF es[e].fd # "open" THEN Done(t, l, -1, "EBADF")
            ELSE Done(t, [l EXCEPT !.out = IF opt = "RX_TIMEOUT" THEN es[e].rcvtimeo
                                           ELSE es[e].sndtimeo], 0, "keep")
     ELSE IF opt = "BLOCKING"
       THEN IF ~lenOk THEN Done(t, l, -1, "ENOMEM")
            ELSE IF es[e].fd # "open" THEN Done(t, l, -1, "EBADF")
            ELSE Done(t, [l EXCEPT !.flags = FileFlags(es[e]),
                                   !.out = BlockingOf(FileFlags(es[e]))], 0, "keep")
     ELSE IF opt = "SOCKET_SIZE"
       THEN IF ~lenOk THEN Done(t, l, -1, "ENOMEM")
            ELSE IF es[e].fd # "open" THEN Done(t, l, -1, "EBADF")
            ELSE Done(t, [l EXCEPT !.size = es[e].sndbuf], 0, "keep")
     ELSE LET h == eps[e].h IN
          IF eps[e].mem = "live" /\ h # NULL /\ lh[h].mem = "live"
            THEN Done(t, [l EXCEPT !.out = lh[h].mws], 0, "keep")
            ELSE \/ \E v \in 0..1 : Done(t, [l EXCEPT !.out = v], 0, "keep")
                 \/ pc' = [pc EXCEPT ![t] = "crashed"] /\ loc' = [loc EXCEPT ![t] = l]
  /\ UNCHANGED <<saved, first, handle, endpoint, lh, cs, eps, es, lastCtrlOp>>
  /\ UNCHANGED cvars

\* the call has returned to the application: its locals are gone
Return(t) ==
  /\ pc[t] = "done"
  /\ pc' = [pc EXCEPT ![t] = "idle"]
  /\ loc' = [loc EXCEPT ![t] = NoLoc]
  /\ UNCHANGED <<saved, first, handle, endpoint, lh, cs, eps, es, lastCtrlOp>>
  /\ UNCHANGED cvars

\* ------------------------------------------------------------------ daemon
\* the daemon reads one request of a control connection and answers it
DaemonCtrl(c) ==
  /\ cs[c].conn /\ ~cs[c].peerClosed /\ cs[c].req # <<>>
  /\ LET m == Head(cs[c].req) IN
     IF m.type = "SET_PID"
       THEN cs' = [cs EXCEPT ![c].req = Tail(@), ![c].pidSet = TRUE]
       ELSE \E r \in Replies(m) :
              cs' = [cs EXCEPT ![c].req = Tail(@), ![c].rep = Append(@, r),
                               ![c].reported = IF m.type = "MAX_WRITE" THEN r.pl ELSE @]
  /\ UNCHANGED <<pc, loc, saved, first, handle, endpoint, lh, eps, es, lastCtrlOp>>
  /\ UNCHANGED cvars

\* lines 232-239: the handler calls saved_reset_callback when it is not NULL
SIGUSR1_handler ==
  saved' = [saved EXCEPT !.called = IF saved.cb # NullCb THEN saved.cb ELSE @]

\* on a link reset the daemon sends SIGUSR1 to the pid a client has registered
\* on a control connection: the handler runs if cpc_init has installed it
\* (lines 296-299), else the default action of SIGUSR1 terminates the process
DaemonSignal(c) ==
  /\ cs[c].pidSet /\ cs[c].conn /\ ~cs[c].peerClosed
  /\ \A t \in Threads : pc[t] # "terminated"
  /\ IF saved.handler = "SIGUSR1_handler"
       THEN SIGUSR1_handler /\ UNCHANGED pc
       ELSE pc' = [t \in Threads |-> "terminated"] /\ UNCHANGED saved
  /\ UNCHANGED <<loc, first, handle, endpoint, lh, cs, eps, es, lastCtrlOp>>
  /\ UNCHANGED cvars

\* what the daemon may send on an endpoint socket: the ack (a bare header of
\* type OpenEndpointQuery) and other messages, shorter and longer
EpMsgs == {[len |-> HdrLen, type |-> "OPEN_ENDPOINT"],
           [len |-> HdrLen + BoolLen, type |-> "OPEN_ENDPOINT"]}
          \cup {[len |-> n, type |-> "data"] : n \in 1..(HdrLen + BoolLen)}

DaemonEpSend(e, m) ==
  /\ es[e].fd = "open" /\ es[e].conn /\ ~es[e].peerClosed
  /\ Len(es[e].rx) < MaxRx
  /\ es' = [es EXCEPT ![e].rx = Append(@, m)]
  /\ UNCHANGED <<pc, loc, saved, first, handle, endpoint, lh, cs, eps, lastCtrlOp>>
  /\ UNCHANGED cvars

\* the daemon closes an endpoint connection (endpoint error, reset, remote close)
DaemonEpClose(e) ==
  /\ es[e].fd = "open" /\ es[e].conn /\ ~es[e].peerClosed
  /\ es' = [es EXCEPT ![e].peerClosed = TRUE]
  /\ UNCHANGED <<pc, loc, saved, first, handle, endpoint, lh, cs, eps, lastCtrlOp>>
  /\ UNCHANGED cvars

\* the daemon closes a control connection (link reset, daemon exit)
DaemonCtrlClose(c) ==
  /\ cs[c].conn /\ ~cs[c].peerClosed
  /\ cs' = [cs EXCEPT ![c].peerClosed = TRUE, ![c].req = <<>>]
  /\ UNCHANGED <<pc, loc, saved, first, handle, endpoint, lh, eps, es, lastCtrlOp>>
  /\ UNCHANGED cvars

\* ----------------------------------------------------------- specifications
\* Life cycle of the library in a single-threaded application: cpc_init and
\* cpc_restart against the daemon, from process start.
Next ==
  \/ \E a \in InitArgs : cpc_init(MainThread, a)
  \/ InitConnect(MainThread)
  \/ set_pid(MainThread)
  \/ get_max_write_send(MainThread)
  \/ get_max_write_recv(MainThread)
  \/ check_version_send(MainThread)
  \/ check_version_recv(MainThread)
  \/ cpc_restart(MainThread)
  \/ RestartDestroy(MainThread)
  \/ RestartLoop(MainThread)
  \/ RestartCheck(MainThread)
  \/ Return(MainThread)
  \/ \E c \in Handles : DaemonCtrl(c)
  \/ \E c \in Handles : DaemonCtrlClose(c)
  \/ \E c \in Handles : DaemonSignal(c)

Spec == Init /\ [][Next]_vars

\* Endpoint operations of the threads of an application after its cpc_init:
\* the states cpc_init leaves behind (InitEp) are the initial ones. Under Spec
\* they are the states after cpc_init(NULL, false, NULL) has returned 0 on
\* the daemon's report of a maximum write size of 1, one for each value the
\* upper half of max_write_size may hold, and the state after
\* cpc_init(LongName, true, cb1) has returned -1 with ERANGE.
InitEp ==
  /\ pc = [t \in Threads |-> "idle"]
  /\ loc = [t \in Threads |-> NoLoc]
  /\ \/ /\ saved = [tracing |-> FALSE, name |-> DefaultInstance, cb |-> NullCb,
                    handler |-> "SIG_DFL", called |-> "none"]
        /\ first = [set |-> TRUE, name |-> DefaultInstance, tr |-> FALSE, cb |-> NullCb]
        /\ handle = 1
        /\ \E v \in MaxWriteValues(1) :
             /\ ~IsNegative(v)
             /\ lh = [h \in Handles |->
                        IF h = 1 THEN [NoHandle EXCEPT !.mem = "live", !.lock = "free",
                                                       !.mws = v]
                        ELSE NoHandle]
        /\ cs = [h \in Handles |->
                   IF h = 1 THEN [NoCtrl EXCEPT !.fd = "open", !.conn = TRUE,
                                                !.reported = 1, !.pidSet = TRUE,
                                                !.inst = DefaultInstance]
                   ELSE NoCtrl]
     \/ /\ saved = [tracing |-> TRUE, name |-> LongName, cb |-> "cb1",
                    handler |-> "SIG_DFL", called |-> "none"]
        /\ first = [set |-> TRUE, name |-> LongName, tr |-> TRUE, cb |-> "cb1"]
        /\ handle = NULL
        /\ lh = [h \in Handles |-> NoHandle]
        /\ cs = [h \in Handles |-> NoCtrl]
  /\ endpoint = [o \in EpObjs |-> NoEndpoint]
  /\ eps = [e \in EpStructs |-> NoEp]
  /\ es = [e \in EpStructs |-> NoEpSock]
  /\ lastCtrlOp = [t |-> 0, kind |-> "none"]
  /\ CoreIdle

NextEp ==
  \/ \E t \in {MainThread}, o \in EpObjs, id \in EpIds, win \in {1, 2} :
       cpc_open_endpoint(t, o, id, win)
  \/ \E t \in {MainThread} : OpenLock(t)
  \/ \E t \in {MainThread} : OpenSend(t)
  \/ \E t \in {MainThread} : OpenRecv(t)
  \/ \E t \in {MainThread} : OpenUnlock(t)
  \/ \E t \in {MainThread} : OpenConnect(t)
  \/ \E t \in {MainThread} : OpenAck(t)
  \/ \E t \in {MainThread}, o \in EpObjs : cpc_close_endpoint(t, o)
  \/ \E t \in {MainThread} : CloseLock(t)
  \/ \E t \in {MainThread} : CloseSend(t)
  \/ \E t \in {MainThread} : CloseRecv(t)
  \/ \E t \in {MainThread} : CloseUnlock(t)
  \/ \E t \in {MainThread}, id \in EpIds : cpc_get_endpoint_state(t, id)
  \/ \E t \in {MainThread} : StateLock(t)
  \/ \E t \in {MainThread} : StateSend(t)
  \/ \E t \in {MainThread} : StateRecv(t)
  \/ \E t \in {MainThread} : StateUnlock(t)
  \/ \E t \in {MainThread}, o \in EpObjs, countOk \in BOOLEAN, nb \in BOOLEAN :
       cpc_read_endpoint(t, o, countOk, nb)
  \/ \E t \in {MainThread} : ReadRecv(t)
  \/ \E t \in {MainThread}, o \in EpObjs, len \in 0..MaxLen, nb \in BOOLEAN :
       cpc_write_endpoint(t, o, len, nb)
  \/ \E t \in {MainThread} : WriteSend(t)
  \/ \E t \in {MainThread} : Return(t)
  \/ \E c \in Handles : DaemonCtrl(c)
  \/ \E c \in Handles : DaemonCtrlClose(c)
  \/ \E e \in EpStructs, m \in EpMsgs : DaemonEpSend(e, m)
  \/ \E e \in EpStructs : DaemonEpClose(e)

SpecEp == InitEp /\ [][NextEp]_vars

\* Two or more threads of that application call cpc_open_endpoint,
\* cpc_close_endpoint and cpc_get_endpoint_state on the same handle.
NextMT ==
  \/ \E t \in Threads, o \in EpObjs : cpc_open_endpoint(t, o, 1, 1)
  \/ \E t \in Threads : OpenLock(t)
  \/ \E t \in Threads : OpenSend(t)
  \/ \E t \in Threads : OpenRecv(t)
  \/ \E t \in Threads : OpenUnlock(t)
  \/ \E t \in Threads : OpenConnect(t)
  \/ \E t \in Threads : OpenAck(t)
  \/ \E t \in Threads, o \in EpObjs : cpc_close_endpoint(t, o)
  \/ \E t \in Threads : CloseLock(t)
  \/ \E t \in Threads : CloseSend(t)
  \/ \E t \in Threads : CloseRecv(t)
  \/ \E t \in Threads : CloseUnlock(t)
  \/ \E t \in Threads : cpc_get_endpoint_state(t, 1)
  \/ \E t \in Threads : StateLock(t)
  \/ \E t \in Threads : StateSend(t)
  \/ \E t \in Threads : StateRecv(t)
  \/ \E t \in Threads : StateUnlock(t)
  \/ \E t \in Threads : Return(t)
  \/ \E c \in Handles : DaemonCtrl(c)
  \/ \E e \in EpStructs : DaemonEpSend(e, [len |-> HdrLen, type |-> "OPEN_ENDPOINT"])

SpecMT == InitEp /\ [][NextMT]_vars

\* Reads, writes and option changes of the threads of an application on an
\* endpoint that cpc_open_endpoint has opened (InitOpt: a state SpecEp reaches).
InitOpt ==
  /\ pc = [t \in Threads |-> "idle"]
  /\ loc = [t \in Threads |-> NoLoc]
  /\ saved = [tracing |-> FALSE, name |-> DefaultInstance, cb |-> NullCb,
              handler |-> "SIG_DFL", called |-> "none"]
  /\ first = [set |-> TRUE, name |-> DefaultInstance, tr |-> FALSE, cb |-> NullCb]
  /\ handle = 1
  /\ lh = [h \in Handles |-> IF h = 1 THEN [NoHandle EXCEPT !.mem = "live", !.lock = "free",
                                                            !.mws = 1]
                             ELSE NoHandle]
  /\ cs = [h \in Handles |-> IF h = 1 THEN [NoCtrl EXCEPT !.fd = "open", !.conn = TRUE,
                                                          !.reported = 1, !.pidSet = TRUE,
                                                          !.inst = DefaultInstance]
                             ELSE NoCtrl]
  /\ endpoint = [o \in EpObjs |-> IF o = 1 THEN [ptr |-> 1, closed |-> FALSE] ELSE NoEndpoint]
  /\ eps = [e \in EpStructs |-> IF e = 1 THEN [NoEp EXCEPT !.mem = "live", !.id = 1, !.h = 1,
                                                           !.lock = "free"]
                                ELSE NoEp]
  /\ es = [e \in EpStructs |-> IF e = 1 THEN [NoEpSock EXCEPT !.fd = "open", !.conn = TRUE,
                                                              !.id = 1, !.sndbuf = "4087"]
                               ELSE NoEpSock]
  /\ lastCtrlOp = [t |-> MainThread, kind |-> "recv"]
  /\ CoreIdle

NextOpt ==
  \/ \E t \in Threads, o \in EpObjs, opt \in Options, val \in {0, 1}, lenOk \in BOOLEAN :
       cpc_set_endpoint_option(t, o, opt, val, lenOk)
  \/ \E t \in Threads : OptLock(t)
  \/ \E t \in Threads : OptGetFl(t)
  \/ \E t \in Threads : OptSetFl(t)
  \/ \E t \in Threads : OptUnlock(t)
  \/ \E t \in Threads, o \in EpObjs, countOk \in BOOLEAN, nb \in BOOLEAN :
       cpc_read_endpoint(t, o, countOk, nb)
  \/ \E t \in Threads : ReadRecv(t)
  \/ \E t \in Threads, o \in EpObjs, len \in 0..MaxLen, nb \in BOOLEAN :
       cpc_write_endpoint(t, o, len, nb)
  \/ \E t \in Threads : WriteSend(t)
  \/ \E t \in Threads : Return(t)
  \/ \E e \in EpStructs, m \in {x \in EpMsgs : x.type = "data"} : DaemonEpSend(e, m)
  \/ \E e \in EpStructs : DaemonEpClose(e)

SpecOpt == InitOpt /\ [][NextOpt]_vars

\* Option changes and option reads of the threads of an application on an open
\* endpoint whose socket has any of the file-status flags that F_SETFL can
\* change besides O_NONBLOCK (O_ASYNC stands for them), and that the daemon
\* may close.
InitFlags ==
  /\ pc = [t \in Threads |-> "idle"]
  /\ loc = [t \in Threads |-> NoLoc]
  /\ saved = [tracing |-> FALSE, name |-> DefaultInstance, cb |-> NullCb,
              handler |-> "SIG_DFL", called |-> "none"]
  /\ first = [set |-> TRUE, name |-> DefaultInstance, tr |-> FALSE, cb |-> NullCb]
  /\ handle = 1
  /\ lh = [h \in Handles |-> IF h = 1 THEN [NoHandle EXCEPT !.mem = "live", !.lock = "free",
                                                            !.mws = 1]
                             ELSE NoHandle]
  /\ cs = [h \in Handles |-> IF h = 1 THEN [NoCtrl EXCEPT !.fd = "open", !.conn = TRUE,
                                                          !.reported = 1, !.pidSet = TRUE,
                                                          !.inst = DefaultInstance]
                             ELSE NoCtrl]
  /\ endpoint = [o \in EpObjs |-> IF o = 1 THEN [ptr |-> 1, closed |-> FALSE] ELSE NoEndpoint]
  /\ eps = [e \in EpStructs |-> IF e = 1 THEN [NoEp EXCEPT !.mem = "live", !.id = 1, !.h = 1,
                                                           !.lock = "free"]
                                ELSE NoEp]
  /\ \E fl \in SUBSET {"O_ASYNC"} :
       es = [e \in EpStructs |-> IF e = 1 THEN [NoEpSock EXCEPT !.fd = "open", !.conn = TRUE,
                                                                !.id = 1, !.sndbuf = "4087",
                                                                !.oflags = fl]
                                 ELSE NoEpSock]
  /\ lastCtrlOp = [t |-> MainThread, kind |-> "recv"]
  /\ CoreIdle

NextFlags ==
  \/ \E t \in Threads, o \in EpObjs, opt \in Options, val \in {0, 1}, lenOk \in BOOLEAN :
       cpc_set_endpoint_option(t, o, opt, val, lenOk)
  \/ \E t \in Threads : OptLock(t)
  \/ \E t \in Threads : OptGetFl(t)
  \/ \E t \in Threads : OptSetFl(t)
  \/ \E t \in Threads : OptUnlock(t)
  \/ \E t \in Threads, o \in EpObjs, opt \in Options, argsOk \in BOOLEAN, lenOk \in BOOLEAN :
       cpc_get_endpoint_option(t, o, opt, argsOk, lenOk)
  \/ \E t \in Threads : Return(t)
  \/ \E e \in EpStructs : DaemonEpClose(e)

SpecFlags == InitFlags /\ [][NextFlags]_vars

\* ===================================================== the daemon's link layer
\* The core (server_core/core/core.c) and the security engine (security/) are
\* built by src/CMakeLists.txt but their sources are not at hand: the rules
\* below are those the specification gives for the send path, the receive
\* path, supervisory and unnumbered frames, the retransmit timer and the
\* security session. core["host"] is the daemon's end of one endpoint,
\* core["sec"] the secondary's end, which follows the same rules.

\* TX window of the endpoint (1..7; "window=1 in practice")
Window == 1

\* max_retries of the retransmit timer (default 5)
MaxRetries == 2

\* writes the daemon's client submits
MaxWrites == 2

\* writes the secondary's application submits
MaxPeerWrites == 1

\* frames in flight in one direction
MaxWire == 2

\* resets of the secondary, resets of the link
MaxResets == 1

\* session keys derived
MaxKeys == 2

\* width of the nonce frame counter (29)
NonceBits == 4

\* sequence numbers are 3 bits wide
SeqMod == 8

\* the Rekey is scheduled this many frames before the counter runs out
RekeyMargin == 8

\* security incidents that put the endpoint in Error(SecurityIncident)
MaxIncidents == 3

NonceLimit == 2 ^ NonceBits

RekeyAt == NonceLimit - RekeyMargin

Other(s) == IF s = "host" THEN "sec" ELSE "host"

IFrame(seq, ack, data) ==
  [type |-> "I", seq |-> seq, ack |-> ack, data |-> data, ok |-> TRUE]

SFrame(type, ack) ==
  [type |-> type, seq |-> 0, ack |-> ack, data |-> 0, ok |-> TRUE]

UFrame(type) == SFrame(type, 0)

OpenCoreEp(enc) == [NoCoreEp EXCEPT !.state = "Open", !.enc = enc]

\* a reset that keeps the sequence numbers
ResetEp_KeepSeq(e) ==
  [e EXCEPT !.rtq = <<>>, !.pending = <<>>, !.timer = FALSE, !.ackdue = FALSE,
            !.fresh = TRUE, !.refused = FALSE]

\* "sequence numbers always reset to 0 on open"; what the clients have seen
\* (rxq, nw) is history and stays
ResetEp(e) ==
  [e EXCEPT !.next_tx = 0, !.expected_rx = 0, !.rtq = <<>>, !.pending = <<>>,
            !.timer = FALSE, !.ackdue = FALSE, !.fresh = TRUE, !.refused = FALSE]

\* a counter for which no Rekey is ever scheduled
RekeyNeeded_Never(c) == FALSE

\* "when counter reaches 2^29 - 8 the engine schedules a Rekey"
RekeyNeeded(c) == c >= RekeyAt

\* Encrypt(frame): the frame takes the counter as its nonce and "on every
\* successful encrypt/decrypt the counter is incremented"
Encrypt(ss) ==
  [ss EXCEPT !.txhi = ss.tx, !.tx = ss.tx + 1,
             !.rekeyDue = @ \/ RekeyNeeded(ss.tx + 1)]

\* a session that lets every write through
SessionAllows_Always(e, ss) == TRUE

\* "encryption off OR Session = Initialized"; "writes are backpressured if
\* Rekey fails"
SessionAllows(e, ss) == ~e.enc \/ (ss.state = "Initialized" /\ ~ss.rekeyDue)

\* an endpoint that never holds a write back
Backpressured_Never(e) == FALSE

\* "if backpressured (outstanding = window)"
Backpressured(e) == Len(e.rtq) >= Window

\* the send path: allocate S = E.next_tx, encrypt, enqueue in the retransmit
\* queue, emit the I-frame with seq = S and ack = E.last_rx_seq + 1, arm the timer
SendI(e, ss, d) ==
  [e |-> [e EXCEPT !.rtq = Append(@, [seq |-> e.next_tx, data |-> d, retry_count |-> 0]),
                   !.next_tx = (@ + 1) % SeqMod,
                   !.timer = TRUE, !.ackdue = FALSE, !.fresh = FALSE,
                   !.refused = FALSE],
   ss |-> IF e.enc THEN Encrypt(ss) ELSE ss,
   f |-> IFrame(e.next_tx, e.expected_rx, d)]

\* "wake any blocked writers": the writes of the pending list go out in
\* their order while the window and the session allow
RECURSIVE Drain(_, _, _)
Drain(e, ss, out) ==
  IF e.state = "Open" /\ e.pending # <<>> /\ SessionAllows(e, ss) /\ ~Backpressured(e)
    THEN LET r == SendI([e EXCEPT !.pending = Tail(@)], ss, Head(e.pending)) IN
         Drain(r.e, r.ss, Append(out, r.f))
    ELSE [e |-> e, ss |-> ss, out |-> out]

WriteBudget(s) == IF s = "host" THEN MaxWrites ELSE MaxPeerWrites

\* a client write on side s: refused while the session does not allow it,
\* queued on the pending list when backpressured, sent otherwise
CoreWrite(s) ==
  /\ core[s].state = "Open"
  /\ core[s].nw < WriteBudget(s)
  /\ LET d == core[s].nw + 1
         e == [core[s] EXCEPT !.nw = d] IN
     IF ~SessionAllows(e, sess)
       THEN /\ core' = [core EXCEPT ![s].refused = TRUE]
            /\ UNCHANGED <<wire, sess>>
     ELSE IF Backpressured(e)
       THEN /\ core' = [core EXCEPT ![s] = [e EXCEPT !.pending = Append(@, d)]]
            /\ UNCHANGED <<wire, sess>>
       ELSE LET r == SendI(e, sess, d) IN
            /\ Len(wire[Other(s)]) < MaxWire
            /\ core' = [core EXCEPT ![s] = r.e]
            /\ sess' = r.ss
            /\ wire' = [wire EXCEPT ![Other(s)] = Append(@, r.f)]
  /\ UNCHANGED lvars

\* frames of the retransmit queue an ack field A acknowledges: those with
\* seq < A, counted from the oldest
AckedCount(e, a) ==
  IF e.rtq = <<>> THEN 0
  ELSE LET k == (a - e.rtq[1].seq + SeqMod) % SeqMod IN
       IF k <= Len(e.rtq) THEN k ELSE 0

\* "for each unacked frame with seq < A, remove from retransmit-queue ...; if
\* queue now empty, cancel retransmit timer"
ProcessAck(e, a) ==
  LET q == SubSeq(e.rtq, AckedCount(e, a) + 1, Len(e.rtq)) IN
  [e EXCEPT !.rtq = q, !.timer = q # <<>>]

\* a receiver that delivers every intact I-frame
InSequence_Any(f, e) == f.ok

\* "N = E.expected_rx"
InSequence(f, e) == f.ok /\ f.seq = e.expected_rx

\* "N < expected_rx (already received, duplicate)", in 3-bit arithmetic
IsDuplicate(n, exp) == (exp - n + SeqMod) % SeqMod \in 1..Window

\* "REJ(A) triggers immediate retransmission starting at seq A"
Retransmit(e) ==
  [i \in 1..Len(e.rtq) |-> IFrame(e.rtq[i].seq, e.expected_rx, e.rtq[i].data)]

\* the receive path for one frame: the endpoint after it and the frames emitted
OnFrame(e, f) ==
  IF f.type = "U_RESET"
    THEN [e |-> [ResetEp(e) EXCEPT !.nr = @ + 1], out |-> <<UFrame("U_ACK")>>]
  ELSE IF f.type = "U_ACK"
    THEN [e |-> e, out |-> <<>>]
  ELSE LET a == ProcessAck(e, f.ack) IN
       IF f.type = "RR"
         THEN [e |-> a, out |-> <<>>]
       ELSE IF f.type = "REJ"
         THEN [e |-> a,
               out |-> IF a.rtq # <<>> /\ a.rtq[1].seq = f.ack THEN Retransmit(a) ELSE <<>>]
       ELSE IF InSequence(f, a)
         THEN [e |-> [a EXCEPT !.rxq = Append(@, f.data),
                               !.expected_rx = (@ + 1) % SeqMod,
                               !.ackdue = TRUE],
               out |-> <<>>]
       ELSE IF f.ok /\ IsDuplicate(f.seq, a.expected_rx)
         THEN [e |-> a, out |-> <<SFrame("RR", a.expected_rx)>>]
         ELSE [e |-> a, out |-> <<SFrame("REJ", a.expected_rx)>>]

\* side s takes the oldest frame in flight to it (keep: the link delivers
\* the frame once more later)
CoreReceive(s, keep) ==
  /\ wire[s] # <<>>
  /\ LET f == Head(wire[s])
         r == IF core[s].state = "Open" THEN OnFrame(core[s], f)
              ELSE [e |-> core[s], out |-> <<>>]
         d == Drain(r.e, sess, r.out) IN
     /\ keep => f.type \in {"I", "RR", "REJ"}
     /\ Len(wire[Other(s)]) + Len(d.out) <= MaxWire
     /\ core' = [core EXCEPT ![s] = d.e]
     /\ sess' = d.ss
     /\ wire' = [t \in Sides |-> IF t = s THEN (IF keep THEN wire[s] ELSE Tail(wire[s]))
                                 ELSE wire[t] \o d.out]
  /\ UNCHANGED lvars

\* a timer that never gives up
RetriesExceeded_Never(n) == FALSE

\* "if retry_count > max_retries"
RetriesExceeded(n) == n > MaxRetries

\* expiry of the retransmit timer of side s
RetransmitTimer(s) ==
  /\ core[s].state = "Open"
  /\ core[s].timer
  /\ LET e == core[s]
         n == e.rtq[1].retry_count + 1 IN
     IF RetriesExceeded(n)
       THEN /\ core' = [core EXCEPT ![s] = [e EXCEPT !.state = "Error_FaultNoAck",
                                                     !.rtq = <<>>, !.pending = <<>>,
                                                     !.timer = FALSE, !.ackdue = FALSE]]
            /\ UNCHANGED wire
       ELSE /\ Len(wire[Other(s)]) < MaxWire
            /\ core' = [core EXCEPT ![s].rtq[1].retry_count = n]
            /\ wire' = [wire EXCEPT ![Other(s)] =
                          Append(@, IFrame(e.rtq[1].seq, e.expected_rx, e.rtq[1].data))]
  /\ UNCHANGED <<sess, lvars>>

\* expiry of the ack timer: "a delayed-ack S-frame (RR)"
AckTimer(s) ==
  /\ core[s].state = "Open"
  /\ core[s].ackdue
  /\ Len(wire[Other(s)]) < MaxWire
  /\ core' = [core EXCEPT ![s].ackdue = FALSE]
  /\ wire' = [wire EXCEPT ![Other(s)] = Append(@, SFrame("RR", core[s].expected_rx))]
  /\ UNCHANGED <<sess, lvars>>

\* the link loses the i-th frame in flight to s (or its header CRC fails)
Lose(s, i) ==
  /\ i \in 1..Len(wire[s])
  /\ wire' = [wire EXCEPT ![s] = SubSeq(@, 1, i - 1) \o SubSeq(@, i + 1, Len(@))]
  /\ UNCHANGED <<core, sess, lvars>>

\* the payload CRC of the i-th frame in flight to s fails
Corrupt(s, i) ==
  /\ i \in 1..Len(wire[s])
  /\ wire[s][i].type = "I"
  /\ wire[s][i].ok
  /\ wire' = [wire EXCEPT ![s][i].ok = FALSE]
  /\ UNCHANGED <<core, sess, lvars>>

\* the secondary resets the endpoint and sends U-Reset
PeerReset ==
  /\ core["sec"].state = "Open"
  /\ core["sec"].nr < MaxResets
  /\ Len(wire["host"]) < MaxWire
  /\ core' = [core EXCEPT !["sec"] = [ResetEp(@) EXCEPT !.nr = @ + 1]]
  /\ wire' = [wire EXCEPT !["host"] = Append(@, UFrame("U_RESET"))]
  /\ UNCHANGED <<sess, lvars>>

\* --------------------------------------------------------- security session
\* a session key fresh from the handshake or from a Rekey
NewKey(ss) ==
  [ss EXCEPT !.state = "Initialized", !.key = @ + 1, !.tx = 0, !.txhi = -1,
             !.rx = 0, !.rxhi = -1, !.rekeyDue = FALSE]

\* InitSession: NotReady -> Initializing
InitSession ==
  /\ sess.state = "NotReady"
  /\ sess' = [sess EXCEPT !.state = "Initializing"]
  /\ UNCHANGED <<core, wire, lvars>>

\* the end of the handshake: Initializing -> Initialized, or back to NotReady
HandshakeDone(ok) ==
  /\ sess.state = "Initializing"
  /\ ok => sess.key < MaxKeys
  /\ sess' = IF ok THEN NewKey(sess) ELSE [sess EXCEPT !.state = "NotReady"]
  /\ UNCHANGED <<core, wire, lvars>>

\* a scheduled Rekey succeeds; the writes it held back go out
Rekey ==
  /\ sess.state = "Initialized"
  /\ sess.rekeyDue
  /\ sess.key < MaxKeys
  /\ LET d == Drain(core["host"], NewKey(sess), <<>>) IN
     /\ Len(wire["sec"]) + Len(d.out) <= MaxWire
     /\ core' = [core EXCEPT !["host"] = d.e]
     /\ sess' = d.ss
     /\ wire' = [wire EXCEPT !["sec"] = @ \o d.out]
  /\ UNCHANGED lvars

\* Decrypt(frame) of a frame whose nonce is the expected counter (ok) or is
\* not: a tag mismatch is a security incident
Decrypt(ok) ==
  /\ sess.state = "Initialized"
  /\ ~sess.rekeyDue
  /\ core["host"].state = "Open"
  /\ core["host"].enc
  /\ IF ok
       THEN /\ sess' = [sess EXCEPT !.rxhi = sess.rx, !.rx = sess.rx + 1,
                                    !.rekeyDue = RekeyNeeded(sess.rx + 1)]
            /\ UNCHANGED core
     ELSE IF sess.incidents + 1 < MaxIncidents
       THEN /\ sess' = [sess EXCEPT !.incidents = @ + 1]
            /\ UNCHANGED core
       ELSE /\ sess' = [sess EXCEPT !.incidents = 0, !.state = "NotReady"]
            /\ core' = [core EXCEPT !["host"] =
                          [@ EXCEPT !.state = "Error_SecurityIncident", !.rtq = <<>>,
                                    !.pending = <<>>, !.timer = FALSE, !.ackdue = FALSE]]
  /\ UNCHANGED <<wire, lvars>>

\* link reset: "drop state", ResetSession
LinkReset ==
  /\ sess.state \in {"Initializing", "Initialized"}
  /\ core["host"].nr < MaxResets
  /\ core' = [s \in Sides |-> [ResetEp(core[s]) EXCEPT !.state = "Closed",
                                                       !.nr = IF s = "host" THEN @ + 1 ELSE @]]
  /\ wire' = [s \in Sides |-> <<>>]
  /\ sess' = [sess EXCEPT !.state = "Resetting", !.rekeyDue = FALSE, !.incidents = 0]
  /\ UNCHANGED lvars

\* the session is reset: Resetting -> NotReady
ResetDone ==
  /\ sess.state = "Resetting"
  /\ sess' = [sess EXCEPT !.state = "NotReady"]
  /\ UNCHANGED <<core, wire, lvars>>

\* the endpoint is opened again on both sides
OpenEndpoint ==
  /\ core["host"].state # "Open"
  /\ wire = [s \in Sides |-> <<>>]
  /\ core' = [s \in Sides |-> [ResetEp(core[s]) EXCEPT !.state = "Open"]]
  /\ UNCHANGED <<wire, sess, lvars>>

\* ------------------------------------------------------------ specifications
\* An open endpoint without encryption: clients write on both sides, the link
\* loses, damages and repeats frames.
InitArq ==
  /\ LibIdle
  /\ core = [s \in Sides |-> OpenCoreEp(FALSE)]
  /\ wire = [s \in Sides |-> <<>>]
  /\ sess = NoSession

NextArq ==
  \/ \E s \in Sides : CoreWrite(s)
  \/ \E s \in Sides, keep \in BOOLEAN : CoreReceive(s, keep)
  \/ \E s \in Sides : RetransmitTimer(s)
  \/ \E s \in Sides : AckTimer(s)
  \/ \E s \in Sides, i \in 1..MaxWire : Lose(s, i)
  \/ \E s \in Sides, i \in 1..MaxWire : Corrupt(s, i)

SpecArq == InitArq /\ [][NextArq]_vars

\* The same with resets of the secondary.
NextReset ==
  \/ \E s \in Sides : CoreWrite(s)
  \/ \E s \in Sides : CoreReceive(s, FALSE)
  \/ \E s \in Sides : RetransmitTimer(s)
  \/ \E s \in Sides : AckTimer(s)
  \/ \E s \in Sides, i \in 1..MaxWire : Lose(s, i)
  \/ PeerReset

SpecReset == InitArq /\ [][NextReset]_vars

\* The link when nothing of what the secondary sends arrives: the timer of
\* the daemon's end fires as long as it is armed and the link takes its frames.
NextSilent ==
  \/ CoreWrite("host")
  \/ RetransmitTimer("host")
  \/ CoreReceive("sec", FALSE)
  \/ AckTimer("sec")
  \/ \E s \in Sides, i \in 1..MaxWire : Lose(s, i)
  \/ \E i \in 1..MaxWire : Corrupt("sec", i)

SpecSilent ==
  /\ InitArq
  /\ [][NextSilent]_vars
  /\ WF_vars(RetransmitTimer("host"))
  /\ WF_vars(\E i \in 1..MaxWire : Lose("sec", i))

\* An encrypted endpoint and the security session: the session has a key and
\* its counters are at 0 or one frame before the Rekey.
InitSec ==
  /\ LibIdle
  /\ core = [s \in Sides |-> OpenCoreEp(s = "host")]
  /\ wire = [s \in Sides |-> <<>>]
  /\ \E c \in {0, RekeyAt - 1} :
       sess = [NoSession EXCEPT !.state = "Initialized", !.key = 1, !.tx = c,
                                !.txhi = c - 1, !.rx = c, !.rxhi = c - 1]

NextSec ==
  \/ CoreWrite("host")
  \/ \E s \in Sides : CoreReceive(s, FALSE)
  \/ RetransmitTimer("host")
  \/ AckTimer("sec")
  \/ \E s \in Sides, i \in 1..MaxWire : Lose(s, i)
  \/ InitSession
  \/ \E ok \in BOOLEAN : HandshakeDone(ok)
  \/ Rekey
  \/ \E ok \in BOOLEAN : Decrypt(ok)
  \/ LinkReset
  \/ ResetDone
  \/ OpenEndpoint

SpecSec == InitSec /\ [][NextSec]_vars

\* ------------------------------------------------------------------ claims
\* where a thread is inside cpc_init (restart_check: cpc_init has just returned
\* to cpc_restart)
InitPcs == {"init_connect", "init_set_pid", "init_mw_send", "init_mw_recv",
            "init_ver_send", "init_ver_recv", "restart_check"}
RecvPcs == {"open_recv", "close_recv", "state_recv"}
LockPcs == {"open_lock", "close_lock", "state_lock"}

\* the control socket reply thread t's cpc_open_endpoint holds is a whole
\* OpenEndpointQuery reply for the endpoint id of the call, with can_open = true
OwnCanOpenReply(t) ==
  /\ loc[t].br = HdrLen + BoolLen
  /\ loc[t].rtype = "OPEN_ENDPOINT"
  /\ loc[t].rep = loc[t].id
  /\ loc[t].pl # 0

\* thread t's cpc_open_endpoint has returned after reading a whole reply with
\* can_open = false from the control socket
OpenRefused(t) ==
  /\ pc[t] = "done" /\ loc[t].op = "open"
  /\ loc[t].sent = 1 /\ ~loc[t].erecv
  /\ loc[t].br = HdrLen + BoolLen /\ loc[t].pl = 0

\* C1: cpc_open_endpoint creates and connects the endpoint socket only after
\* it has received, on the control socket, an OpenEndpointQuery reply for the
\* endpoint id of the call with can_open = true; after a reply with
\* can_open = false it returns -1 and no endpoint socket was created.
C1_ConnectOnlyAfterOwnReply ==
  \A t \in Threads :
    /\ (loc[t].op = "open" /\ pc[t] \in {"open_connect", "open_ack"}) => OwnCanOpenReply(t)
    /\ OpenRefused(t) => (loc[t].ret = -1 /\ es[loc[t].e].fd = "none")

\* cpc_init of thread t has returned after a whole VersionQuery reply whose
\* version byte is not the library's
VersionMismatch(t) ==
  /\ loc[t].op \in {"init", "restart"}
  /\ pc[t] \in {"done", "restart_check"}
  /\ loc[t].rtype = "VERSION"
  /\ loc[t].br = HdrLen + VerLen
  /\ loc[t].pl # LIBRARY_API_VERSION

\* C2: when the VersionQuery reply carries a version byte other than the
\* library's API version, cpc_init returns -1 with errno ELIBBAD and the
\* handle structure of that call is not stored in handle->ptr.
C2_VersionMismatchAborts ==
  \A t \in Threads :
    VersionMismatch(t) =>
      /\ loc[t].ret = -1
      /\ loc[t].errno = "ELIBBAD"
      /\ handle # loc[t].h

C2_Witness ==
  \E t \in Threads : VersionMismatch(t) /\ pc[t] = "done" /\ loc[t].op = "init"

\* C3: while a thread is between its send of a request and its recv of the
\* reply, the last send or recv of a request call on the control socket is
\* that thread's own send: no other thread has sent or received since.
C3_PairsSerialized ==
  \A t \in Threads :
    pc[t] \in RecvPcs => lastCtrlOp = [t |-> t, kind |-> "send"]

\* a thread is between its send and its recv while another one wants the
\* control socket
C3_Witness ==
  \E t \in Threads, u \in Threads :
    /\ t # u
    /\ pc[t] \in RecvPcs
    /\ pc[u] \in LockPcs
    /\ loc[u].h = loc[t].h

OpenAcked(t) == pc[t] = "done" /\ loc[t].op = "open" /\ loc[t].erecv
FirstIsAck(t) == loc[t].mlen = HdrLen /\ loc[t].rtype = "OPEN_ENDPOINT"

\* C5: cpc_open_endpoint succeeds only if the first message on the connected
\* endpoint socket is an OpenEndpointQuery message of exactly the header size;
\* after any other first message, or EOF, the socket is closed, the call
\* returns -1 and endpoint->ptr does not point to the call's structure.
C5_OnlyAckOpens ==
  \A t \in Threads :
    OpenAcked(t) =>
      /\ loc[t].ret >= 0 => FirstIsAck(t)
      /\ ~FirstIsAck(t) => /\ loc[t].ret = -1
                           /\ es[loc[t].e].fd = "closed"
                           /\ endpoint[loc[t].epo].ptr # loc[t].e

\* an OpenEndpointQuery message that carries a payload is turned down
C5_Witness ==
  \E t \in Threads :
    /\ OpenAcked(t)
    /\ loc[t].mlen = HdrLen + BoolLen
    /\ loc[t].rtype = "OPEN_ENDPOINT"
    /\ loc[t].ret = -1

\* C6: cpc_restart closes the old control connection, calls cpc_init with the
\* instance name, tracing flag and reset callback of the application's first
\* cpc_init, and when it returns 0 handle->ptr is a live handle on an open
\* control connection on which SetPid, MaxWriteSizeQuery and VersionQuery
\* were answered.
C6_RestartUsesFirstParameters ==
  \A t \in Threads :
    loc[t].op = "restart" =>
      /\ pc[t] = "restart_destroy" => cs[loc[t].h].fd = "closed"
      /\ pc[t] \in InitPcs => /\ loc[t].name = first.name
                              /\ loc[t].tr = first.tr
                              /\ loc[t].cb = first.cb
      /\ (pc[t] = "done" /\ loc[t].ret = 0) =>
            /\ handle # NULL /\ handle = loc[t].h
            /\ lh[handle].mem = "live"
            /\ cs[handle].fd = "open"
            /\ cs[handle].pidSet
            /\ cs[handle].reported # -1
            /\ loc[t].rtype = "VERSION" /\ loc[t].br = HdrLen + VerLen

\* cpc_close_endpoint called by thread t on endpoint object o, which an
\* earlier cpc_close_endpoint has closed, returns (one step of the model)
CloseAgain(t, o) ==
  /\ pc[t] = "idle" /\ pc'[t] = "done"
  /\ loc'[t].op = "close" /\ loc'[t].epo = o
  /\ endpoint[o] = ClosedEndpoint

\* C7 (as the code has it): cpc_close_endpoint on an endpoint that an earlier
\* cpc_close_endpoint closed returns -1 with errno EINVAL, sends nothing and
\* changes no state.
C7_CloseAgainFails ==
  [][\A t \in Threads, o \in EpObjs :
       CloseAgain(t, o) =>
         /\ loc'[t].ret = -1
         /\ loc'[t].errno = "EINVAL"
         /\ loc'[t].sent = 0
         /\ UNCHANGED <<saved, first, handle, endpoint, lh, cs, eps, es, lastCtrlOp>>]_vars

C7_Witness ==
  \E t \in Threads :
    /\ pc[t] = "done" /\ loc[t].op = "close"
    /\ loc[t].e = NULL
    /\ endpoint[loc[t].epo] = ClosedEndpoint
    /\ loc[t].ret = -1 /\ loc[t].errno = "EINVAL"

\* C7 (as stated): cpc_close_endpoint on an endpoint that an earlier
\* cpc_close_endpoint closed returns 0, sends nothing and changes no state.
C7_CloseAgainSucceeds ==
  [][\A t \in Threads, o \in EpObjs :
       CloseAgain(t, o) =>
         /\ loc'[t].ret = 0
         /\ loc'[t].sent = 0
         /\ UNCHANGED <<saved, first, handle, endpoint, lh, cs, eps, es, lastCtrlOp>>]_vars

\* C8: cpc_write_endpoint sends no message longer than the maximum write size
\* the daemon reported during cpc_init; a write of more than that size, or of
\* 0 bytes, returns -1 with errno EINVAL and sends nothing.
C8_WriteWithinReportedSize ==
  \A t \in Threads :
    (loc[t].op = "write" /\ loc[t].e # NULL) =>
      /\ loc[t].sent <= cs[handle].reported
      /\ (pc[t] = "done" /\ (loc[t].len = 0 \/ loc[t].len > cs[handle].reported)) =>
            /\ loc[t].ret = -1
            /\ loc[t].errno = "EINVAL"
            /\ loc[t].sent = 0

\* C9: a cpc_write_endpoint that returns a non-negative value returns exactly
\* data_length and has sent the whole buffer as one message.
C9_WholeMessageOrError ==
  \A t \in Threads :
    (loc[t].op = "write" /\ pc[t] = "done" /\ loc[t].ret >= 0) =>
      /\ loc[t].ret = loc[t].len
      /\ loc[t].sent = loc[t].len

C9_Witness ==
  \E t \in Threads :
    /\ loc[t].op = "write" /\ pc[t] = "done"
    /\ loc[t].len > 1
    /\ loc[t].ret = loc[t].len
    /\ loc[t].sent = loc[t].len

\* thread t's cpc_read_endpoint has returned after its recv met the end of an
\* endpoint connection that the daemon has closed
ReadAfterLoss(t) ==
  /\ pc[t] = "done" /\ loc[t].op = "read"
  /\ loc[t].erecv
  /\ es[loc[t].e].peerClosed
  /\ loc[t].br = 0

\* C10 (as the code has it): after the daemon has closed the endpoint socket,
\* a cpc_read_endpoint that finds no queued message returns -1 with errno
\* ECONNRESET; cpc_read_endpoint never returns 0.
C10_ReadAfterLossFails ==
  \A t \in Threads :
    /\ ReadAfterLoss(t) => (loc[t].ret = -1 /\ loc[t].errno = "ECONNRESET")
    /\ (pc[t] = "done" /\ loc[t].op = "read") => loc[t].ret # 0

C10_Witness ==
  \E t \in Threads : ReadAfterLoss(t) /\ loc[t].errno = "ECONNRESET"

\* C10 (as stated): after the daemon has closed the endpoint socket, a
\* cpc_read_endpoint on that endpoint returns 0.
C10_ReadAfterLossReturnsZero ==
  \A t \in Threads : ReadAfterLoss(t) => loc[t].ret = 0

\* thread t holds the endpoint mutex for the get-flags / set-flags steps of a
\* BLOCKING change
InFlagSteps(t) == pc[t] \in {"opt_getfl", "opt_setfl"}

\* thread t waits in recv: nothing is queued, the daemon has not closed the
\* socket and nothing makes recv return empty-handed
BlockedInRead(t) ==
  /\ pc[t] = "read_recv"
  /\ es[loc[t].e].fd = "open"
  /\ es[loc[t].e].rx = <<>>
  /\ ~es[loc[t].e].peerClosed
  /\ ~ReturnsEmpty(loc[t].nb, es[loc[t].e])

\* C11: a BLOCKING change does its get-flags / set-flags steps holding the
\* endpoint's mutex, so two changes on one endpoint are never in those steps
\* together; a thread inside cpc_read_endpoint or cpc_write_endpoint never
\* holds that mutex, so when no option change holds it the mutex is free for
\* the next one, also while a read is blocked.
C11_OptionStepsExclusive ==
  \A t \in Threads :
    /\ InFlagSteps(t) =>
         /\ eps[loc[t].e].lock = "held" /\ eps[loc[t].e].owner = t
         /\ \A u \in Threads \ {t} : ~(InFlagSteps(u) /\ loc[u].e = loc[t].e)
    /\ pc[t] \in {"read_recv", "write_send"} => eps[loc[t].e].owner # t
    /\ (pc[t] = "opt_lock"
        /\ \A u \in Threads \ {t} : pc[u] \notin {"opt_getfl", "opt_setfl", "opt_unlock"})
         => eps[loc[t].e].lock = "free"

\* one thread is blocked in a read while another is between the get-flags and
\* set-flags steps of a BLOCKING change on the same endpoint
C11_Witness ==
  \E t \in Threads, u \in Threads :
    /\ t # u
    /\ BlockedInRead(t)
    /\ pc[u] = "opt_setfl"
    /\ loc[u].e = loc[t].e

\* the steps of cpc_init after its arguments were checked
InitStepPcs == {"init_connect", "init_set_pid", "init_mw_send", "init_mw_recv",
                "init_ver_send", "init_ver_recv"}

\* cpc_init of thread t has returned (to the application or to cpc_restart)
InitReturned(t) ==
  /\ loc[t].op \in {"init", "restart"}
  /\ pc[t] \in {"done", "restart_check"}
  /\ loc[t].h # NULL

AllSteps == <<"SET_PID", "MAX_WRITE", "VERSION">>

\* C12: cpc_init stores its handle in handle->ptr and returns 0 only after
\* SetPid was sent, then a whole MaxWriteSizeQuery reply was received, then a
\* whole VersionQuery reply with the library's version was received; a call
\* in which a step failed returns -1 and does not publish its handle.
C12_PublishAfterHandshake ==
  [][/\ (handle' # handle /\ handle' # NULL) =>
           \E t \in Threads :
             /\ pc[t] = "init_ver_recv"
             /\ handle' = loc[t].h
             /\ loc'[t].steps = AllSteps
             /\ loc'[t].ret = 0
             /\ cs[handle'].pidSet
             /\ cs[handle'].reported # -1
             /\ loc'[t].br = HdrLen + VerLen
             /\ loc'[t].rtype = "VERSION"
             /\ loc'[t].pl = LIBRARY_API_VERSION
     /\ \A t \in Threads :
          (pc[t] \in InitStepPcs /\ pc'[t] \in {"done", "restart_check"}) =>
             IF loc'[t].steps = AllSteps
               THEN loc'[t].ret = 0 /\ handle' = loc[t].h
               ELSE loc'[t].ret = -1 /\ handle' = handle]_vars

\* a cpc_init went through the three steps and published its handle
C12_Witness ==
  \E t \in Threads :
    /\ InitReturned(t)
    /\ loc[t].steps = AllSteps
    /\ loc[t].ret = 0
    /\ handle = loc[t].h

\* C13: a cpc_open_endpoint that read can_open = false for an endpoint other
\* than the security endpoint returns -1 with errno EAGAIN and leaves no
\* trace: endpoint->ptr is what it was at the call, no endpoint socket was
\* created, the endpoint structure is freed and the control mutex is free.
C13_RefusalIsRetriable ==
  \A t \in Threads :
    (OpenRefused(t) /\ loc[t].id # SL_CPC_ENDPOINT_SECURITY) =>
      /\ loc[t].ret = -1
      /\ loc[t].errno = "EAGAIN"
      /\ endpoint[loc[t].epo].ptr = loc[t].old
      /\ es[loc[t].e].fd = "none"
      /\ eps[loc[t].e].mem = "freed"
      /\ lh[loc[t].h].lock = "free"

C13_Witness ==
  \E t \in Threads :
    /\ OpenRefused(t)
    /\ loc[t].id # SL_CPC_ENDPOINT_SECURITY
    /\ loc[t].errno = "EAGAIN"
    /\ lh[loc[t].h].lock = "free"

\* C14: the recv of cpc_read_endpoint returns only when a message is queued,
\* the daemon has closed the socket, the descriptor is not open any more, or
\* the read is non-blocking (flag or option) or has a receive timeout; with
\* none of these the call stays in recv.
C14_ReadBlocksByDefault ==
  [][\A t \in Threads :
       (pc[t] = "read_recv" /\ pc'[t] # "read_recv") =>
          \/ es[loc[t].e].rx # <<>>
          \/ es[loc[t].e].peerClosed
          \/ es[loc[t].e].fd # "open"
          \/ loc[t].nb
          \/ es[loc[t].e].nonblock
          \/ es[loc[t].e].rcvtimeo # 0]_vars

\* a read with the defaults waits in recv
C14_Witness ==
  \E t \in Threads :
    /\ BlockedInRead(t)
    /\ \A u \in Threads : pc[u] \in {"idle", "read_recv"}
    /\ ~es[loc[t].e].nonblock /\ es[loc[t].e].rcvtimeo = 0 /\ ~loc[t].nb

\* the frames side s emits in a step: what the step appends to the frames in
\* flight to the other side
Emitted(s) ==
  LET old == wire[Other(s)]
      new == wire'[Other(s)] IN
  IF Len(new) > Len(old) /\ SubSeq(new, 1, Len(old)) = old
    THEN SubSeq(new, Len(old) + 1, Len(new))
    ELSE <<>>

EmitsI(s) == \E i \in 1..Len(Emitted(s)) : Emitted(s)[i].type = "I"

\* a client write on side s is taken in a step
WriteTaken(s) == core'[s].nw = core[s].nw + 1

\* C15: an endpoint never has more un-acknowledged I-frames than its TX
\* window, and a client write that arrives when outstanding = window goes on
\* the pending list and no frame is emitted for it.
C15_OutstandingWithinWindow ==
  [][\A s \in Sides :
       /\ Len(core'[s].rtq) <= Window
       /\ (WriteTaken(s) /\ Len(core[s].rtq) = Window) =>
             /\ core'[s].pending = Append(core[s].pending, core'[s].nw)
             /\ core'[s].rtq = core[s].rtq
             /\ wire' = wire]_vars

\* a write waits on the pending list of a full window
C15_Witness ==
  /\ Len(core["host"].rtq) = Window
  /\ core["host"].pending # <<>>

\* C16: whatever the link loses, damages or repeats, the payloads an endpoint
\* has delivered to its client are the first writes of the sending client,
\* each once and in the order of submission.
C16_ExactlyOnceInOrder ==
  \A s \in Sides :
    /\ Len(core[s].rxq) <= core[Other(s)].nw
    /\ \A i \in 1..Len(core[s].rxq) : core[s].rxq[i] = i

\* both writes were delivered and a repeated copy of one of them is at the
\* head of the frames in flight to the receiver
C16_Witness ==
  /\ core["sec"].rxq = <<1, 2>>
  /\ wire["sec"] # <<>>
  /\ Head(wire["sec"]).type = "I"
  /\ Head(wire["sec"]).ok
  /\ core["host"].state = "Open"

\* the daemon's end takes a U-Reset of the secondary in this step
TakesReset == core'["host"].nr = core["host"].nr + 1

\* the daemon's end emits its first I-frame since a U-Reset in this step
FirstAfterReset ==
  /\ core["host"].nr > 0
  /\ core["host"].fresh
  /\ EmitsI("host")

TimerExpires ==
  /\ core["host"].state = "Open"
  /\ core["host"].timer
  /\ \/ core'["host"].state = "Error_FaultNoAck"
     \/ /\ core'["host"].rtq # <<>>
        /\ core'["host"].rtq[1].seq = core["host"].rtq[1].seq
        /\ core'["host"].rtq[1].retry_count = core["host"].rtq[1].retry_count + 1

\* C18: when the retransmit timer expires and the retry counter of the oldest
\* outstanding frame exceeds max_retries, the endpoint goes to
\* Error(FaultNoAck) and is closed; otherwise that frame is sent again with
\* its sequence number and the timer stays armed. When nothing arrives from
\* the secondary, an endpoint with an outstanding frame leaves Open.
C18_SilentPeerClosesEndpoint ==
  /\ [][TimerExpires =>
          IF core["host"].rtq[1].retry_count + 1 > MaxRetries
            THEN /\ core'["host"].state = "Error_FaultNoAck"
                 /\ core'["host"].rtq = <<>>
                 /\ ~core'["host"].timer
                 /\ Emitted("host") = <<>>
            ELSE /\ core'["host"].state = "Open"
                 /\ core'["host"].timer
                 /\ Len(Emitted("host")) = 1
                 /\ Emitted("host")[1].type = "I"
                 /\ Emitted("host")[1].seq = core["host"].rtq[1].seq
                 /\ Emitted("host")[1].data = core["host"].rtq[1].data]_vars
  /\ (core["host"].state = "Open" /\ core["host"].rtq # <<>>)
        ~> (core["host"].state # "Open")

\* the endpoint has given up after the retransmissions
C18_Witness ==
  /\ core["host"].state = "Error_FaultNoAck"
  /\ core["host"].nw > 0

\* C19: the daemon emits an I-frame on the encrypted endpoint only while the
\* session is Initialized, however the client's writes interleave with the
\* handshake, the Rekey and the resets.
C19_NoEgressBeforeInitialized ==
  [][(core["host"].enc /\ EmitsI("host")) =>
        /\ sess.state = "Initialized"
        /\ sess'.state = "Initialized"]_vars

\* a write was refused on the open encrypted endpoint during the handshake
C19_Witness ==
  /\ core["host"].enc
  /\ core["host"].state = "Open"
  /\ core["host"].refused
  /\ sess.state = "Initializing"

ClosePcs == {"close_lock", "close_send", "close_recv", "close_unlock"}

\* the control socket reply thread t's cpc_close_endpoint holds is the whole
\* reply to a CloseEndpointQuery for the endpoint of the call
OwnCloseReply(t) ==
  /\ loc[t].sent = 1
  /\ loc[t].br = HdrLen
  /\ loc[t].rtype = "CLOSE_ENDPOINT"
  /\ loc[t].rep = loc[t].id

\* C21: cpc_close_endpoint closes the endpoint socket before it sends the
\* CloseEndpointQuery; it returns 0 only after it has received the whole reply
\* to that query; when closing the endpoint socket fails it returns without
\* having sent a query.
C21_CloseThenQueryThenReply ==
  \A t \in Threads :
    /\ pc[t] \in ClosePcs => es[loc[t].e].fd = "closed"
    /\ (pc[t] = "done" /\ loc[t].op = "close" /\ loc[t].ret = 0) => OwnCloseReply(t)
    /\ (pc[t] = "done" /\ loc[t].op = "close" /\ loc[t].errno \in {"EBADF", "EINTR"}
        /\ loc[t].h = NULL) => loc[t].sent = 0

\* thread t enters cpc_open_endpoint with an unsupported tx_window_size or
\* with the id of the system endpoint
RejectedOpen(t) ==
  /\ pc[t] = "idle"
  /\ loc'[t].op = "open"
  /\ loc'[t].win # 1 \/ loc'[t].id = 0

\* thread t enters cpc_get_endpoint_state with the id of the system endpoint
RejectedState(t) ==
  /\ pc[t] = "idle"
  /\ loc'[t].op = "state"
  /\ loc'[t].id = 0

\* the call thread t has entered returns -1 with errno e from its first step,
\* without a send on a control socket and without an endpoint socket
FailsAtOnce(t, e) ==
  /\ pc'[t] = "done"
  /\ loc'[t].ret = -1
  /\ loc'[t].errno = e
  /\ loc'[t].sent = 0
  /\ UNCHANGED <<cs, es, eps, lastCtrlOp>>

\* C22 (as stated): cpc_open_endpoint rejects with EINVAL, before sending
\* anything on the control socket, every call whose tx_window_size is not 1
\* and every call whose id is 0; cpc_get_endpoint_state with id 0 fails with
\* EINVAL without sending a query.
C22_RejectsWithEinval ==
  [][\A t \in Threads :
       /\ RejectedOpen(t) => FailsAtOnce(t, "EINVAL")
       /\ RejectedState(t) => FailsAtOnce(t, "EINVAL")]_vars

\* C22 (amended): such a call of cpc_open_endpoint fails before sending
\* anything on the control socket, with ERANGE when the path of the endpoint
\* socket does not fit in sun_path and with EINVAL otherwise;
\* cpc_get_endpoint_state with id 0 fails with EINVAL without sending a query.
C22_RejectsBeforeSending ==
  [][\A t \in Threads :
       /\ RejectedOpen(t) =>
            FailsAtOnce(t, IF PathFits(EpPathLen(saved.name, loc'[t].id))
                             THEN "EINVAL" ELSE "ERANGE")
       /\ RejectedState(t) => FailsAtOnce(t, "EINVAL")]_vars

\* on a live handle, an open of endpoint 1 with tx_window_size 2 has been
\* rejected
C22_Witness ==
  \E t \in Threads :
    /\ pc[t] = "done" /\ loc[t].ret = -1 /\ loc[t].errno = "EINVAL"
    /\ loc[t].h # NULL /\ cs[loc[t].h].fd = "open"
    /\ loc[t].op = "open" /\ loc[t].win = 2 /\ loc[t].id = 1

\* thread t's cpc_close_endpoint returns in this step from a call on an
\* endpoint whose ptr was not NULL
CloseReturns(t) ==
  /\ pc[t] # "done" /\ pc'[t] = "done"
  /\ loc'[t].op = "close"
  /\ loc'[t].e # NULL

AfterAttempt(t) ==
  /\ pc[t] = "restart_check"
  /\ pc'[t] \notin {"restart_check", "terminated"}

\* C24: cpc_restart makes at most 5 attempts of cpc_init: it returns after
\* the first attempt that returns 0 and after the fifth attempt, makes a
\* further attempt only after a failed one, and returns the result of its
\* last attempt, which is 0 exactly when an attempt succeeded.
C24_AtMostFiveAttempts ==
  [][\A t \in Threads :
       /\ loc'[t].op = "restart" => loc'[t].i < RestartAttempts
       /\ AfterAttempt(t) =>
            /\ pc'[t] \in {"done", "restart_loop"}
            /\ loc'[t].ret = loc[t].ret
            /\ pc'[t] = "done" <=> (loc[t].ret = 0 \/ loc[t].i = RestartAttempts - 1)
            /\ pc'[t] = "restart_loop" => loc'[t].i = loc[t].i + 1
       /\ (pc[t] = "restart_loop" /\ pc'[t] \notin {"restart_loop", "terminated"}) =>
            (loc[t].i = 0 \/ loc[t].ret # 0)]_vars

\* cpc_restart has returned the result of a failed fifth attempt
C24_Witness ==
  \E t \in Threads :
    /\ pc[t] = "done" /\ loc[t].op = "restart"
    /\ loc[t].i = RestartAttempts - 1 /\ loc[t].ret = -1
    /\ handle = NULL

\* One thread opens and closes an endpoint and asks for its state while the
\* other threads set CPC_OPTION_BLOCKING on the same endpoint object; the
\* daemon answers, answers late, or closes the control connection.
NextLock ==
  \/ \E o \in EpObjs : cpc_open_endpoint(MainThread, o, 1, 1)
  \/ OpenLock(MainThread)
  \/ OpenSend(MainThread)
  \/ OpenRecv(MainThread)
  \/ OpenUnlock(MainThread)
  \/ OpenConnect(MainThread)
  \/ OpenAck(MainThread)
  \/ \E o \in EpObjs : cpc_close_endpoint(MainThread, o)
  \/ CloseLock(MainThread)
  \/ CloseSend(MainThread)
  \/ CloseRecv(MainThread)
  \/ CloseUnlock(MainThread)
  \/ cpc_get_endpoint_state(MainThread, 1)
  \/ StateLock(MainThread)
  \/ StateSend(MainThread)
  \/ StateRecv(MainThread)
  \/ StateUnlock(MainThread)
  \/ \E t \in Threads \ {MainThread}, o \in EpObjs, val \in {0, 1} :
       cpc_set_endpoint_option(t, o, "BLOCKING", val, TRUE)
  \/ \E t \in Threads \ {MainThread} : OptLock(t)
  \/ \E t \in Threads \ {MainThread} : OptGetFl(t)
  \/ \E t \in Threads \ {MainThread} : OptSetFl(t)
  \/ \E t \in Threads \ {MainThread} : OptUnlock(t)
  \/ \E t \in Threads : Return(t)
  \/ \E c \in Handles : DaemonCtrl(c)
  \/ \E c \in Handles : DaemonCtrlClose(c)
  \/ \E e \in EpStructs : DaemonEpSend(e, [len |-> HdrLen, type |-> "OPEN_ENDPOINT"])

SpecLock == InitEp /\ [][NextLock]_vars

\* thread t is outside the library or about to return from a call
Outside(t) == pc[t] \in {"idle", "done"}

\* thread t holds the control socket mutex of a handle or the mutex of an
\* endpoint structure
HoldsMutex(t) ==
  \/ \E h \in Handles : lh[h].lock = "held" /\ lh[h].owner = t
  \/ \E e \in EpStructs : eps[e].lock = "held" /\ eps[e].owner = t

\* C25: no library function returns while the calling thread holds the
\* control socket mutex or an endpoint mutex: on every return of
\* cpc_open_endpoint, cpc_close_endpoint, cpc_get_endpoint_state and
\* cpc_set_endpoint_option the mutex the call took has been released.
C25_NoMutexHeldOnReturn ==
  \A t \in Threads : Outside(t) => ~HoldsMutex(t)

\* a control request has returned -1 after its send for want of a reply, and
\* a cpc_set_endpoint_option has returned -1 on the failure of fcntl
C25_Witness ==
  \E t, u \in Threads :
    /\ pc[t] = "done" /\ loc[t].op \in {"open", "close", "state"}
    /\ loc[t].sent = 1 /\ loc[t].ret = -1
    /\ pc[u] = "done" /\ loc[u].op = "set_option"
    /\ loc[u].ret = -1 /\ loc[u].errno = "EBADF"

\* thread t's recv on the control socket returns a message in this step
ReadsReply(t) ==
  /\ pc[t] \in RecvPcs
  /\ pc'[t] # pc[t]
  /\ loc'[t].br > 0

\* the message at the head of control socket c is the daemon's reply to the
\* request sent last: replies come in the order of the requests, so it is the
\* only message queued and no request is left unanswered
HeadAnswersLastRequest(c) ==
  /\ Len(cs[c].rep) = 1
  /\ cs[c].req = <<>>

\* C26: every reply that a library call reads from the control socket is the
\* daemon's reply to the request the same call sent, also after an earlier
\* request has returned -1 on the receive timeout and its reply arrived late.
C26_ReadsOwnReply ==
  [][\A t \in Threads :
       ReadsReply(t) =>
         /\ HeadAnswersLastRequest(loc[t].h)
         /\ loc'[t].rtype = loc[t].rtype
         /\ loc'[t].rep = loc[t].id]_vars

\* cpc_init of thread t returns -1 in this step, after it has created its
\* control socket
InitFails(t) ==
  /\ pc[t] \in InitStepPcs
  /\ pc'[t] \in {"done", "restart_check"}
  /\ loc'[t].ret = -1

\* C27: a cpc_init that returns -1 leaves handle->ptr as it was and has closed
\* the control socket it created: the only control socket that is open after
\* it is the one of the handle in handle->ptr.
C27_FailedInitClosesSocket ==
  [][\A t \in Threads :
       InitFails(t) =>
         /\ handle' = handle
         /\ cs'[loc'[t].h].fd # "open"
         /\ \A c \in Handles : cs'[c].fd = "open" => c = handle']_vars

\* the steps of cpc_open_endpoint after its arguments were checked
OpenPcs == {"open_lock", "open_send", "open_recv", "open_unlock", "open_connect",
            "open_ack"}

\* cpc_open_endpoint of thread t returns -1 in this step
OpenFails(t) ==
  /\ pc[t] \in OpenPcs
  /\ pc'[t] = "done"
  /\ loc'[t].ret = -1

\* C28: a cpc_open_endpoint that returns -1 leaves endpoint->ptr as it was
\* and leaves no endpoint socket open: the socket the call created, if any,
\* is closed when it returns.
C28_FailedOpenClosesSocket ==
  [][\A t \in Threads :
       OpenFails(t) =>
         /\ endpoint' = endpoint
         /\ es'[loc'[t].e].fd # "open"]_vars

\* handle h came out of a cpc_init that succeeded and has not been freed
FromSuccessfulInit(h) ==
  /\ lh[h].mem = "live"
  /\ lh[h].lock # "uninit"
  /\ cs[h].pidSet
  /\ cs[h].reported # -1

\* handle->ptr is NULL or a handle of a successful cpc_init
HandleNullOrLive == handle # NULL => FromSuccessfulInit(handle)

\* cpc_restart of thread t has freed the old handle and all its attempts of
\* cpc_init have failed
RestartGaveUp(t) ==
  /\ pc[t] = "done" /\ loc[t].op = "restart"
  /\ loc[t].i = RestartAttempts - 1
  /\ loc[t].ret = -1

\* thread t enters cpc_restart while handle->ptr is NULL
RestartOfNull(t) ==
  /\ pc[t] = "idle"
  /\ loc'[t].op = "restart"
  /\ handle = NULL

\* C29: handle->ptr is NULL or a handle that a successful cpc_init produced,
\* never a freed one; when the 5 attempts of a cpc_restart have failed it is
\* NULL, and a cpc_restart on a NULL handle->ptr fails with EINVAL without an
\* attempt to connect.
C29_HandleNullOrLive ==
  [][/\ HandleNullOrLive'
     /\ \A t \in Threads :
          /\ RestartGaveUp(t)' => handle' = NULL
          /\ RestartOfNull(t) =>
               /\ pc'[t] = "done"
               /\ loc'[t].ret = -1 /\ loc'[t].errno = "EINVAL"
               /\ UNCHANGED <<handle, lh, cs, saved>>]_vars

\* after a cpc_restart closed the connection and gave up, a further
\* cpc_restart has failed with EINVAL
C29_Witness ==
  \E t \in Threads :
    /\ pc[t] = "done" /\ loc[t].op = "restart" /\ loc[t].i = 0
    /\ loc[t].ret = -1 /\ loc[t].errno = "EINVAL"
    /\ handle = NULL
    /\ \E h \in Handles : cs[h].fd = "closed" /\ lh[h].mem = "freed"

\* One thread calls cpc_restart while the other threads ask for the state of
\* an endpoint on the same handle.
NextRestart ==
  \/ cpc_restart(MainThread)
  \/ RestartDestroy(MainThread)
  \/ RestartLoop(MainThread)
  \/ RestartCheck(MainThread)
  \/ InitConnect(MainThread)
  \/ set_pid(MainThread)
  \/ get_max_write_send(MainThread)
  \/ get_max_write_recv(MainThread)
  \/ check_version_send(MainThread)
  \/ check_version_recv(MainThread)
  \/ \E t \in Threads \ {MainThread} : cpc_get_endpoint_state(t, 1)
  \/ \E t \in Threads \ {MainThread} : StateLock(t)
  \/ \E t \in Threads \ {MainThread} : StateSend(t)
  \/ \E t \in Threads \ {MainThread} : StateRecv(t)
  \/ \E t \in Threads \ {MainThread} : StateUnlock(t)
  \/ \E t \in Threads : Return(t)
  \/ \E c \in Handles : DaemonCtrl(c)

SpecRestart == InitEp /\ [][NextRestart]_vars

\* thread u is inside a control request on handle h: between the lock and the
\* unlock of ctrl_sock_fd_lock
InRequest(u, h) ==
  /\ pc[u] \in {"open_send", "open_recv", "open_unlock", "close_send", "close_recv",
                "close_unlock", "state_send", "state_recv", "state_unlock"}
  /\ loc[u].h = h

\* thread t's cpc_restart closes the control socket of handle h, or destroys
\* its mutex and frees it, in this step
RestartTearsDown(t, h) ==
  /\ loc'[t].op = "restart"
  /\ loc'[t].h = h
  /\ \/ pc[t] = "idle" /\ pc'[t] = "restart_destroy"
     \/ pc[t] = "restart_destroy" /\ pc'[t] = "restart_loop"

\* thread u sends or receives on the control socket in this step
CtrlIo(u) ==
  /\ pc[u] \in {"open_send", "open_recv", "close_send", "close_recv", "state_send",
                "state_recv"}
  /\ pc'[u] # pc[u]

\* C30: cpc_restart never closes the control socket, destroys its mutex or
\* frees the handle while another thread is inside a control request on the
\* same handle, and no thread sends or receives on a control socket that
\* cpc_restart has closed.
C30_RestartWaitsForRequests ==
  [][\A t \in Threads :
       \A u \in Threads \ {t} :
         /\ \A h \in Handles : RestartTearsDown(t, h) => ~InRequest(u, h)
         /\ CtrlIo(u) => cs[loc[u].h].fd # "closed"]_vars

\* the pid of the process is registered with the daemon on the connection of
\* the handle a successful cpc_init has stored in handle->ptr
RegisteredClient ==
  /\ handle # NULL
  /\ FromSuccessfulInit(handle)
  /\ cs[handle].conn /\ ~cs[handle].peerClosed

\* C31: every client process whose pid a successful cpc_init has registered
\* with the daemon has the library's SIGUSR1 handler installed: a reset
\* notification does not take the default action (it does not terminate the
\* process) and calls the reset callback of the most recent cpc_init if it is
\* not NULL, and nothing otherwise.
C31_RegisteredClientHandlesSigusr1 ==
  [][/\ RegisteredClient => saved.handler = "SIGUSR1_handler"
     /\ \A c \in Handles :
          (RegisteredClient /\ DaemonSignal(c)) =>
            /\ \A t \in Threads : pc'[t] # "terminated"
            /\ saved'.called = IF saved.cb # NullCb THEN saved.cb ELSE saved.called]_vars

\* C32: cpc_get_endpoint_state returns 0 and writes *state only when it has
\* received a whole EndpointStatusQuery reply, the header and the full state
\* payload; on every error, a short reply included, it returns -1 and leaves
\* *state as it was.
C32_StateOnlyFromWholeReply ==
  \A t \in Threads :
    (pc[t] = "done" /\ loc[t].op = "state") =>
      IF loc[t].sent = 1 /\ loc[t].br = HdrLen + StateLen
        THEN loc[t].ret = 0 /\ loc[t].out = loc[t].pl
        ELSE loc[t].ret = -1 /\ loc[t].out = NoLoc.out

\* thread t is in the state that its fcntl(F_SETFL) of a blocking-mode change
\* is about to leave
SetsFlags(t) == pc[t] = "opt_setfl" /\ es[loc[t].e].fd = "open"

\* C33: blocking-mode round trip. Once cpc_set_endpoint_option(CPC_OPTION_BLOCKING, b)
\* has changed the flags of an endpoint (the call then returns 0), a
\* cpc_get_endpoint_option(CPC_OPTION_BLOCKING) that returns 0 on that endpoint
\* gives b, which is true exactly when O_NONBLOCK is clear; setting the value
\* that was set last leaves the socket as it is; and a change touches no other
\* file-status flag of the socket.
C33_BlockingRoundTrip ==
  [][\A t \in Threads :
       /\ ( /\ pc[t] = "idle" /\ pc'[t] = "done"
            /\ loc'[t].op = "get_option" /\ loc'[t].opt = "BLOCKING"
            /\ loc'[t].ret = 0 ) =>
            LET sock == es[loc'[t].e] IN
            /\ loc'[t].out = 1 <=> ~sock.nonblock
            /\ sock.setb # -1 => loc'[t].out = sock.setb
       /\ ( SetsFlags(t) /\ pc'[t] = "opt_unlock" ) =>
            LET e == loc[t].e IN
            /\ es'[e].nonblock = (loc[t].val # 1)
            /\ es'[e].oflags = es[e].oflags
            /\ es[e].setb = loc[t].val => es'[e] = es[e]]_vars

C33_Witness ==
  \E t \in Threads :
    /\ pc[t] = "done" /\ loc[t].op = "get_option" /\ loc[t].opt = "BLOCKING"
    /\ loc[t].ret = 0 /\ loc[t].out = 0
    /\ es[loc[t].e].setb = 0
    /\ "O_ASYNC" \in es[loc[t].e].oflags

====
